---- MODULE Spec2Model ----
(***************************************************************************)
(* Model of the scene-editing store of tile_studio                         *)
(* (frontend/src/stores/projectStore.ts): the placements of the scenes,    *)
(* the selection, the uncommitted move (the "transaction") and the         *)
(* undo/redo history.  Every store operation is an operator from store     *)
(* state to store state, translated from its code; the actions apply the   *)
(* operators to the current state with inputs drawn from small sets.       *)
(***************************************************************************)
EXTENDS Integers, Sequences, FiniteSets, TLC

VARIABLES project, selection, uncommittedMove, history, nextId, lastOp, steps,
          dragState, moveOffset, boxSelectEnd

vars == <<project, selection, uncommittedMove, history, nextId, lastOp, steps,
          dragState, moveOffset, boxSelectEnd>>

(***************************************************************************)
(* Program constants and bounds                                            *)
(***************************************************************************)
MAX_HISTORY_SIZE == 50

\* Number of placements the store may create with generateId() in one run.
MaxFresh == 2
\* Number of store operations in one run of Spec.
MaxSteps == 4

\* Ids of the placements of the loaded project; fresh ids follow them.
LoadedIds == {1, 2}
FirstFreshId == Cardinality(LoadedIds) + 1
AllIds == 1..(FirstFreshId + MaxFresh - 1)

TileIds == {"t1", "t2"}
NoScene == "none"

\* A nullable value is the empty tuple (null) or a one-element tuple.
Null == << >>
Some(v) == <<v>>
EmptyMap == << >>

(***************************************************************************)
(* Data                                                                    *)
(***************************************************************************)
Placement(id, t, x, y) ==
  [id |-> id, tileId |-> t, gridX |-> x, gridY |-> y, locked |-> FALSE]

HistoryEntry(sid, pls, d, um) ==
  [sceneId |-> sid, placements |-> pls, description |-> d, uncommittedMove |-> um]

UncommittedMove(ids, repl, orig) ==
  [placementIds |-> ids, replacedPlacements |-> repl, originalPositions |-> orig]

\* The store state the operations read with get() and write with set().
St ==
  [project |-> project, selection |-> selection,
   uncommittedMove |-> uncommittedMove, history |-> history, nextId |-> nextId]

(***************************************************************************)
(* Helpers for arrays                                                      *)
(***************************************************************************)
MinOf(S) == CHOOSE i \in S : \A j \in S : i <= j
MaxOf(S) == CHOOSE i \in S : \A j \in S : i >= j

\* Array.prototype.map over a sequence.
MapSeq(s, F(_)) == [i \in 1..Len(s) |-> F(s[i])]

\* Ids of the placements of a list.
IdsOf(pls) == {pls[i].id : i \in 1..Len(pls)}

\* project.scenes.find(s => s.id === sid)
FindScene(p, sid) ==
  LET I == {i \in 1..Len(p.scenes) : p.scenes[i].id = sid}
  IN IF I = {} THEN Null ELSE Some(p.scenes[MinOf(I)])

\* project.scenes.map(s => s.id === sid ? { ...s, placements: pls } : s)
SetPlacements(p, sid, pls) ==
  [p EXCEPT !.scenes =
     [i \in 1..Len(p.scenes) |->
        IF p.scenes[i].id = sid
        THEN [p.scenes[i] EXCEPT !.placements = pls]
        ELSE p.scenes[i]]]

\* getActiveScene()
getActiveScene(s) ==
  IF s.project = Null THEN Null
  ELSE IF s.project[1].activeSceneId = NoScene THEN Null
  ELSE FindScene(s.project[1], s.project[1].activeSceneId)

\* while (newPast.length > MAX_HISTORY_SIZE) newPast.shift()
RECURSIVE TrimPast(_)
TrimPast(past) ==
  IF Len(past) > MAX_HISTORY_SIZE THEN TrimPast(Tail(past)) ELSE past

\* Variant of RestoreOriginal that leaves every placement where it is.
RestoreOriginal_asIs(um, q) == q

\* { ...p, gridX: original.gridX, gridY: original.gridY } for the live
\* placements that have an original position, p otherwise.
RestoreOriginal(um, q) ==
  IF q.id \in um.placementIds /\ q.id \in DOMAIN um.originalPositions
  THEN [q EXCEPT !.gridX = um.originalPositions[q.id].gridX,
                 !.gridY = um.originalPositions[q.id].gridY]
  ELSE q

(***************************************************************************)
(* commitMove                                                              *)
(***************************************************************************)
\* The scene as commitMove reconstructs it for the history entry: the live
\* placements without an original position are left out, the others are put
\* back at their original position, the replaced placements are appended.
previousPlacements(scene, um) ==
  MapSeq(SelectSeq(scene.placements,
           LAMBDA q : q.id \notin um.placementIds
                      \/ q.id \in DOMAIN um.originalPositions),
         LAMBDA q : RestoreOriginal(um, q))
    \o um.replacedPlacements

\* Variant of withoutReplaced that leaves the replaced placements in the scene.
withoutReplaced_keepAll(scene, um) == scene.placements

\* s.placements.filter(p => !replacedIds.has(p.id))
withoutReplaced(scene, um) ==
  SelectSeq(scene.placements,
            LAMBDA q : q.id \notin IdsOf(um.replacedPlacements))

commitMove(s) ==
  IF s.project = Null \/ s.uncommittedMove = Null
  THEN [s EXCEPT !.uncommittedMove = Null]
  ELSE IF s.project[1].activeSceneId = NoScene
  THEN [s EXCEPT !.uncommittedMove = Null]
  ELSE
    LET p == s.project[1]
        um == s.uncommittedMove[1]
        sc == FindScene(p, p.activeSceneId)
    IN IF sc = Null THEN [s EXCEPT !.uncommittedMove = Null]
       ELSE
         LET scene == sc[1]
             isNewPlacement == DOMAIN um.originalPositions = {}
             description == IF isNewPlacement THEN "place tile" ELSE "move tiles"
             entry == HistoryEntry(scene.id, previousPlacements(scene, um),
                                   description, Null)
             newPast == TrimPast(Append(s.history.past, entry))
         IN [s EXCEPT
               !.project = Some(SetPlacements(p, p.activeSceneId,
                                              withoutReplaced(scene, um))),
               !.uncommittedMove = Null,
               !.history = [past |-> newPast, future |-> << >>]]

(***************************************************************************)
(* cancelMove                                                              *)
(***************************************************************************)
cancelMove(s) ==
  IF s.project = Null \/ s.uncommittedMove = Null THEN s
  ELSE IF s.project[1].activeSceneId = NoScene THEN s
  ELSE
    LET p == s.project[1]
        um == s.uncommittedMove[1]
        Processed(pls) ==
          MapSeq(SelectSeq(pls,
                   LAMBDA q : q.id \notin um.placementIds
                              \/ q.id \in DOMAIN um.originalPositions),
                 LAMBDA q : RestoreOriginal(um, q))
    IN [s EXCEPT
          !.project = Some([p EXCEPT !.scenes =
             [i \in 1..Len(p.scenes) |->
                IF p.scenes[i].id = p.activeSceneId
                THEN [p.scenes[i] EXCEPT !.placements = Processed(p.scenes[i].placements)]
                ELSE p.scenes[i]]]),
          !.uncommittedMove = Null,
          !.selection = [s.selection EXCEPT !.tileIds = {}]]

(***************************************************************************)
(* placeTile                                                               *)
(***************************************************************************)
placeTile(s, tileId, gridX, gridY) ==
  IF s.project = Null THEN s
  ELSE IF s.project[1].activeSceneId = NoScene THEN s
  ELSE
    LET \* project was read before the nested commitMove()
        p == s.project[1]
        s1 == IF s.uncommittedMove # Null THEN commitMove(s) ELSE s
        sc == FindScene(p, p.activeSceneId)
    IN IF sc = Null THEN s1
       ELSE
         LET scene == sc[1]
             at == {i \in 1..Len(scene.placements) :
                      scene.placements[i].gridX = gridX
                      /\ scene.placements[i].gridY = gridY}
             existingPlacement ==
               IF at = {} THEN << >> ELSE <<scene.placements[MinOf(at)]>>
             placement == Placement(s.nextId, tileId, gridX, gridY)
         IN [s1 EXCEPT
               !.project = Some(SetPlacements(p, p.activeSceneId,
                                  Append(scene.placements, placement))),
               !.uncommittedMove =
                  Some(UncommittedMove({placement.id}, existingPlacement, EmptyMap)),
               !.selection = [s1.selection EXCEPT !.tileIds = {placement.id}],
               !.nextId = s.nextId + 1]

(***************************************************************************)
(* removePlacement, removePlacements, deleteSelectedPlacements             *)
(***************************************************************************)
removePlacements(s, placementIds) ==
  IF s.project = Null THEN s
  ELSE IF s.project[1].activeSceneId = NoScene THEN s
  ELSE
    LET p == s.project[1]
    IN [s EXCEPT !.project = Some([p EXCEPT !.scenes =
          [i \in 1..Len(p.scenes) |->
             IF p.scenes[i].id = p.activeSceneId
             THEN [p.scenes[i] EXCEPT !.placements =
                     SelectSeq(p.scenes[i].placements,
                               LAMBDA q : q.id \notin placementIds)]
             ELSE p.scenes[i]]])]

removePlacement(s, placementId) ==
  IF s.project = Null THEN s
  ELSE IF s.project[1].activeSceneId = NoScene THEN s
  ELSE
    LET p == s.project[1]
    IN [s EXCEPT !.project = Some([p EXCEPT !.scenes =
          [i \in 1..Len(p.scenes) |->
             IF p.scenes[i].id = p.activeSceneId
             THEN [p.scenes[i] EXCEPT !.placements =
                     SelectSeq(p.scenes[i].placements,
                               LAMBDA q : q.id # placementId)]
             ELSE p.scenes[i]]])]

\* Variant of deleteSelectedPlacements without the test for an empty selection.
deleteSelectedPlacements_anySelection(s) ==
  IF s.project = Null THEN s
  ELSE IF s.project[1].activeSceneId = NoScene THEN s
  ELSE
    LET p == s.project[1]
        sc == FindScene(p, p.activeSceneId)
    IN IF sc = Null THEN s
       ELSE
         LET scene == sc[1]
             entry == HistoryEntry(scene.id, scene.placements, "delete tiles", Null)
         IN [s EXCEPT
               !.project = Some(SetPlacements(p, p.activeSceneId,
                  SelectSeq(scene.placements,
                            LAMBDA q : q.id \notin s.selection.tileIds))),
               !.selection = [s.selection EXCEPT !.tileIds = {}],
               !.uncommittedMove = Null,
               !.history = [past |-> TrimPast(Append(s.history.past, entry)),
                            future |-> << >>]]

deleteSelectedPlacements(s) ==
  IF s.project = Null THEN s
  ELSE IF s.project[1].activeSceneId = NoScene \/ s.selection.tileIds = {} THEN s
  ELSE
    LET p == s.project[1]
        sc == FindScene(p, p.activeSceneId)
    IN IF sc = Null THEN s
       ELSE
         LET scene == sc[1]
             entry == HistoryEntry(scene.id, scene.placements, "delete tiles", Null)
             newPast == TrimPast(Append(s.history.past, entry))
             idsToRemove == s.selection.tileIds
         IN [s EXCEPT
               !.project = Some(SetPlacements(p, p.activeSceneId,
                  SelectSeq(scene.placements, LAMBDA q : q.id \notin idsToRemove))),
               !.selection = [s.selection EXCEPT !.tileIds = {}],
               !.uncommittedMove = Null,
               !.history = [past |-> newPast, future |-> << >>]]

(***************************************************************************)
(* duplicateSelectedPlacements                                             *)
(***************************************************************************)
\* Variant of DuplicateOffset whose fit tests are off by one (> for >=).
DuplicateOffset_strict(selectedPlacements, gridWidth, gridHeight) ==
  LET xs == {selectedPlacements[i].gridX : i \in 1..Len(selectedPlacements)}
      ys == {selectedPlacements[i].gridY : i \in 1..Len(selectedPlacements)}
      selectionWidth == MaxOf(xs) - MinOf(xs) + 1
      selectionHeight == MaxOf(ys) - MinOf(ys) + 1
  IN IF MaxOf(xs) + selectionWidth > gridWidth
     THEN IF MaxOf(ys) + selectionHeight > gridHeight
          THEN [offsetX |-> 1, offsetY |-> 1]
          ELSE [offsetX |-> 0, offsetY |-> selectionHeight]
     ELSE [offsetX |-> selectionWidth, offsetY |-> 0]

\* The offset of the clones, from the bounding box of the selected placements.
DuplicateOffset(selectedPlacements, gridWidth, gridHeight) ==
  LET xs == {selectedPlacements[i].gridX : i \in 1..Len(selectedPlacements)}
      ys == {selectedPlacements[i].gridY : i \in 1..Len(selectedPlacements)}
      minX == MinOf(xs)
      maxX == MaxOf(xs)
      minY == MinOf(ys)
      maxY == MaxOf(ys)
      selectionWidth == maxX - minX + 1
      selectionHeight == maxY - minY + 1
  IN IF maxX + selectionWidth >= gridWidth
     THEN IF maxY + selectionHeight >= gridHeight
          THEN [offsetX |-> 1, offsetY |-> 1]
          ELSE [offsetX |-> 0, offsetY |-> selectionHeight]
     ELSE [offsetX |-> selectionWidth, offsetY |-> 0]

\* Variant of duplicateSelectedPlacements that leaves the selection on the
\* originals.
duplicateSelectedPlacements_keepsSelection(s) ==
  IF s.project = Null THEN s
  ELSE IF s.project[1].activeSceneId = NoScene \/ s.selection.tileIds = {} THEN s
  ELSE
    LET \* project, selection and history were read before the nested commitMove()
        p == s.project[1]
        s1 == IF s.uncommittedMove # Null THEN commitMove(s) ELSE s
        sc == FindScene(p, p.activeSceneId)
    IN IF sc = Null THEN s1
       ELSE
         LET scene == sc[1]
             entry == HistoryEntry(scene.id, scene.placements, "duplicate tiles", Null)
             newPast == TrimPast(Append(s.history.past, entry))
             selectedPlacements ==
               SelectSeq(scene.placements, LAMBDA q : q.id \in s.selection.tileIds)
         IN IF Len(selectedPlacements) = 0 THEN s1
            ELSE
              LET off == DuplicateOffset(selectedPlacements,
                                         scene.gridWidth, scene.gridHeight)
                  newPlacements ==
                    [i \in 1..Len(selectedPlacements) |->
                       Placement(s.nextId + i - 1, selectedPlacements[i].tileId,
                                 selectedPlacements[i].gridX + off.offsetX,
                                 selectedPlacements[i].gridY + off.offsetY)]
                  newSelectionIds == IdsOf(newPlacements)
              IN [s1 EXCEPT
                    !.project = Some(SetPlacements(p, p.activeSceneId,
                                       scene.placements \o newPlacements)),
                    !.selection = s.selection,
                    !.uncommittedMove =
                       Some(UncommittedMove(newSelectionIds, << >>, EmptyMap)),
                    !.history = [past |-> newPast, future |-> << >>],
                    !.nextId = s.nextId + Len(selectedPlacements)]

duplicateSelectedPlacements(s) ==
  IF s.project = Null THEN s
  ELSE IF s.project[1].activeSceneId = NoScene \/ s.selection.tileIds = {} THEN s
  ELSE
    LET \* project, selection and history were read before the nested commitMove()
        p == s.project[1]
        s1 == IF s.uncommittedMove # Null THEN commitMove(s) ELSE s
        sc == FindScene(p, p.activeSceneId)
    IN IF sc = Null THEN s1
       ELSE
         LET scene == sc[1]
             entry == HistoryEntry(scene.id, scene.placements, "duplicate tiles", Null)
             newPast == TrimPast(Append(s.history.past, entry))
             selectedPlacements ==
               SelectSeq(scene.placements, LAMBDA q : q.id \in s.selection.tileIds)
         IN IF Len(selectedPlacements) = 0 THEN s1
            ELSE
              LET off == DuplicateOffset(selectedPlacements,
                                         scene.gridWidth, scene.gridHeight)
                  newPlacements ==
                    [i \in 1..Len(selectedPlacements) |->
                       Placement(s.nextId + i - 1, selectedPlacements[i].tileId,
                                 selectedPlacements[i].gridX + off.offsetX,
                                 selectedPlacements[i].gridY + off.offsetY)]
                  newSelectionIds == IdsOf(newPlacements)
              IN [s1 EXCEPT
                    !.project = Some(SetPlacements(p, p.activeSceneId,
                                       scene.placements \o newPlacements)),
                    !.selection = [s.selection EXCEPT !.tileIds = newSelectionIds],
                    !.uncommittedMove =
                       Some(UncommittedMove(newSelectionIds, << >>, EmptyMap)),
                    !.history = [past |-> newPast, future |-> << >>],
                    !.nextId = s.nextId + Len(selectedPlacements)]

(***************************************************************************)
(* movePlacements                                                          *)
(***************************************************************************)
\* Variant of movePlacements that records the current cell of every listed
\* placement at every call.
movePlacements_recapture(s, idsSet, dx, dy) ==
  IF s.project = Null THEN s
  ELSE IF s.project[1].activeSceneId = NoScene THEN s
  ELSE
    LET p == s.project[1]
        sc == FindScene(p, p.activeSceneId)
    IN IF sc = Null THEN s
       ELSE
         LET scene == sc[1]
             old == IF s.uncommittedMove = Null THEN EmptyMap
                    ELSE s.uncommittedMove[1].originalPositions
             listed == {i \in 1..Len(scene.placements) :
                          scene.placements[i].id \in idsSet}
             FirstOf(id) ==
               scene.placements[MinOf({i \in listed : scene.placements[i].id = id})]
             originalPositions ==
               [id \in DOMAIN old \cup {scene.placements[i].id : i \in listed} |->
                  IF id \in DOMAIN old /\ id \notin idsSet THEN old[id]
                  ELSE IF {i \in listed : scene.placements[i].id = id} = {} THEN old[id]
                  ELSE [gridX |-> FirstOf(id).gridX, gridY |-> FirstOf(id).gridY]]
             updatedPlacements ==
               MapSeq(scene.placements,
                      LAMBDA q : IF q.id \in idsSet
                                 THEN [q EXCEPT !.gridX = q.gridX + dx,
                                                !.gridY = q.gridY + dy]
                                 ELSE q)
             newPositions ==
               {<<updatedPlacements[i].gridX, updatedPlacements[i].gridY>> :
                  i \in listed}
             replacedPlacements ==
               SelectSeq(updatedPlacements,
                         LAMBDA q : q.id \notin idsSet
                                    /\ <<q.gridX, q.gridY>> \in newPositions)
         IN [s EXCEPT
               !.project = Some(SetPlacements(p, p.activeSceneId, updatedPlacements)),
               !.uncommittedMove =
                  Some(UncommittedMove(idsSet, replacedPlacements, originalPositions))]

movePlacements(s, idsSet, dx, dy) ==
  IF s.project = Null THEN s
  ELSE IF s.project[1].activeSceneId = NoScene THEN s
  ELSE
    LET p == s.project[1]
        sc == FindScene(p, p.activeSceneId)
    IN IF sc = Null THEN s
       ELSE
         LET scene == sc[1]
             old == IF s.uncommittedMove = Null THEN EmptyMap
                    ELSE s.uncommittedMove[1].originalPositions
             listed == {i \in 1..Len(scene.placements) :
                          scene.placements[i].id \in idsSet}
             FirstOf(id) ==
               scene.placements[MinOf({i \in listed : scene.placements[i].id = id})]
             originalPositions ==
               [id \in DOMAIN old \cup {scene.placements[i].id : i \in listed} |->
                  IF id \in DOMAIN old THEN old[id]
                  ELSE [gridX |-> FirstOf(id).gridX, gridY |-> FirstOf(id).gridY]]
             updatedPlacements ==
               MapSeq(scene.placements,
                      LAMBDA q : IF q.id \in idsSet
                                 THEN [q EXCEPT !.gridX = q.gridX + dx,
                                                !.gridY = q.gridY + dy]
                                 ELSE q)
             newPositions ==
               {<<updatedPlacements[i].gridX, updatedPlacements[i].gridY>> :
                  i \in listed}
             replacedPlacements ==
               SelectSeq(updatedPlacements,
                         LAMBDA q : q.id \notin idsSet
                                    /\ <<q.gridX, q.gridY>> \in newPositions)
         IN [s EXCEPT
               !.project = Some(SetPlacements(p, p.activeSceneId, updatedPlacements)),
               !.uncommittedMove =
                  Some(UncommittedMove(idsSet, replacedPlacements, originalPositions))]

(***************************************************************************)
(* Selection                                                               *)
(***************************************************************************)
\* Variant of selectTile that commits whenever a transaction is Open.
selectTile_alwaysCommits(s, placementId, additive) ==
  LET s1 == IF s.uncommittedMove # Null THEN commitMove(s) ELSE s
      newTileIds == (IF additive THEN s.selection.tileIds ELSE {}) \cup {placementId}
  IN [s1 EXCEPT !.selection = [s.selection EXCEPT !.tileIds = newTileIds]]

selectTile(s, placementId, additive) ==
  LET s1 == IF s.uncommittedMove # Null
               /\ placementId \notin s.uncommittedMove[1].placementIds
            THEN commitMove(s) ELSE s
      newTileIds == (IF additive THEN s.selection.tileIds ELSE {}) \cup {placementId}
  IN [s1 EXCEPT !.selection = [s.selection EXCEPT !.tileIds = newTileIds]]

deselectTile(s, placementId) ==
  [s EXCEPT !.selection.tileIds = @ \ {placementId}]

selectAllTiles(s) ==
  LET sc == getActiveScene(s)
  IN IF sc = Null THEN s
     ELSE [s EXCEPT !.selection.tileIds = IdsOf(sc[1].placements)]

\* Ids of the placements of the scene with minX <= gridX <= maxX and
\* minY <= gridY <= maxY.
TilesInArea(scene, minX, minY, maxX, maxY) ==
  {scene.placements[i].id :
     i \in {j \in 1..Len(scene.placements) :
              /\ scene.placements[j].gridX >= minX
              /\ scene.placements[j].gridX <= maxX
              /\ scene.placements[j].gridY >= minY
              /\ scene.placements[j].gridY <= maxY}}

\* Variant of EdgesInArea without the extra unit on the max side.
EdgesInArea_noExtension(scene, minX, minY, maxX, maxY) ==
  {scene.edges[i].id :
     i \in {j \in 1..Len(scene.edges) :
              /\ scene.edges[j].x >= minX
              /\ scene.edges[j].x <= maxX
              /\ scene.edges[j].y >= minY
              /\ scene.edges[j].y <= maxY}}

\* Ids of the edges of the scene with minX <= x <= maxX + 1 and
\* minY <= y <= maxY + 1.
EdgesInArea(scene, minX, minY, maxX, maxY) ==
  {scene.edges[i].id :
     i \in {j \in 1..Len(scene.edges) :
              /\ scene.edges[j].x >= minX
              /\ scene.edges[j].x <= maxX + 1
              /\ scene.edges[j].y >= minY
              /\ scene.edges[j].y <= maxY + 1}}

selectArea(s, minX, minY, maxX, maxY, additive) ==
  LET sc == getActiveScene(s)
  IN IF sc = Null THEN s
     ELSE
       LET \* selection and the scene were read before the nested commitMove()
           scene == sc[1]
           s1 == IF s.uncommittedMove # Null THEN commitMove(s) ELSE s
           mode == s.selection.mode
           newTileIds ==
             (IF additive THEN s.selection.tileIds ELSE {})
               \cup (IF mode = "tiles" \/ mode = "both"
                     THEN TilesInArea(scene, minX, minY, maxX, maxY) ELSE {})
           newEdgeIds ==
             (IF additive THEN s.selection.edgeIds ELSE {})
               \cup (IF mode = "edges" \/ mode = "both"
                     THEN EdgesInArea(scene, minX, minY, maxX, maxY) ELSE {})
       IN [s1 EXCEPT !.selection =
             [s.selection EXCEPT !.tileIds = newTileIds, !.edgeIds = newEdgeIds]]

deselectArea(s, minX, minY, maxX, maxY) ==
  LET sc == getActiveScene(s)
  IN IF sc = Null THEN s
     ELSE
       LET scene == sc[1]
           mode == s.selection.mode
           newTileIds ==
             s.selection.tileIds
               \ (IF mode = "tiles" \/ mode = "both"
                  THEN TilesInArea(scene, minX, minY, maxX, maxY) ELSE {})
           newEdgeIds ==
             s.selection.edgeIds
               \ (IF mode = "edges" \/ mode = "both"
                  THEN EdgesInArea(scene, minX, minY, maxX, maxY) ELSE {})
       IN [s EXCEPT !.selection =
             [s.selection EXCEPT !.tileIds = newTileIds, !.edgeIds = newEdgeIds]]

setSelectionMode(s, mode) == [s EXCEPT !.selection.mode = mode]

clearSelection(s) ==
  LET s1 == IF s.uncommittedMove # Null THEN commitMove(s) ELSE s
  IN [s1 EXCEPT !.selection = [s1.selection EXCEPT !.tileIds = {}, !.edgeIds = {}]]

(***************************************************************************)
(* History: pushHistory, undo, redo, canUndo, canRedo                      *)
(***************************************************************************)
pushHistory(s, description) ==
  IF s.project = Null THEN s
  ELSE IF s.project[1].activeSceneId = NoScene THEN s
  ELSE
    LET p == s.project[1]
        sc == FindScene(p, p.activeSceneId)
    IN IF sc = Null THEN s
       ELSE
         LET entry == HistoryEntry(sc[1].id, sc[1].placements, description, Null)
         IN [s EXCEPT !.history =
               [past |-> TrimPast(Append(s.history.past, entry)), future |-> << >>]]

\* Variant of undoUncommitted that only cancels the move and leaves future alone.
undoUncommitted_cancelOnly(s, p, scene) == cancelMove(s)

\* undo() while an uncommitted move exists (projectStore.ts 1154-1259)
undoUncommitted(s, p, scene) ==
  LET um == s.uncommittedMove[1]
      hasMoves == DOMAIN um.originalPositions # {}
      currentEntry ==
        HistoryEntry(scene.id, scene.placements, "uncommitted move", Some(um))
      newHistory ==
        [past |-> s.history.past, future |-> <<currentEntry>> \o s.history.future]
  IN IF hasMoves
     THEN
       LET restoredPlacements ==
             MapSeq(scene.placements, LAMBDA q : RestoreOriginal(um, q))
               \o um.replacedPlacements
       IN [s EXCEPT
             !.project = Some(SetPlacements(p, scene.id, restoredPlacements)),
             !.uncommittedMove =
                Some(UncommittedMove(um.placementIds, << >>, EmptyMap)),
             !.history = newHistory]
     ELSE
       LET withoutUncommitted ==
             SelectSeq(scene.placements, LAMBDA q : q.id \notin um.placementIds)
               \o um.replacedPlacements
       IN [s EXCEPT
             !.project = Some(SetPlacements(p, scene.id, withoutUncommitted)),
             !.uncommittedMove = Null,
             !.history = newHistory,
             !.selection = [s.selection EXCEPT !.tileIds = {}]]

\* Variant of undoCommitted that does not switch to the entry's scene.
undoCommitted_keepActive(s, p) ==
  IF Len(s.history.past) = 0 THEN s
  ELSE
    LET lastEntry == s.history.past[Len(s.history.past)]
        target == FindScene(p, lastEntry.sceneId)
    IN IF target = Null THEN s
       ELSE [s EXCEPT
               !.project = Some(SetPlacements(p, target[1].id, lastEntry.placements)),
               !.history =
                  [past |-> SubSeq(s.history.past, 1, Len(s.history.past) - 1),
                   future |-> <<HistoryEntry(target[1].id, target[1].placements,
                                             "redo point", Null)>>
                                \o s.history.future],
               !.selection = [s.selection EXCEPT !.tileIds = {}]]

\* undo() of the last entry of past (projectStore.ts 1261-1296)
undoCommitted(s, p) ==
  IF Len(s.history.past) = 0 THEN s
  ELSE
    LET lastEntry == s.history.past[Len(s.history.past)]
        target == FindScene(p, lastEntry.sceneId)
    IN IF target = Null THEN s
       ELSE
         LET targetScene == target[1]
             currentEntry ==
               HistoryEntry(targetScene.id, targetScene.placements, "redo point", Null)
         IN [s EXCEPT
               !.project = Some([SetPlacements(p, targetScene.id, lastEntry.placements)
                                   EXCEPT !.activeSceneId = targetScene.id]),
               !.history =
                  [past |-> SubSeq(s.history.past, 1, Len(s.history.past) - 1),
                   future |-> <<currentEntry>> \o s.history.future],
               !.selection = [s.selection EXCEPT !.tileIds = {}]]

undo(s) ==
  IF s.project = Null THEN s
  ELSE IF s.project[1].activeSceneId = NoScene THEN s
  ELSE
    LET p == s.project[1]
        sc == FindScene(p, p.activeSceneId)
    IN IF sc = Null THEN s
       ELSE IF s.uncommittedMove # Null THEN undoUncommitted(s, p, sc[1])
       ELSE undoCommitted(s, p)

\* Variant of redo that restores the entry's placements but not the
\* transaction embedded in it.
redo_dropsTransaction(s) ==
  IF s.project = Null THEN s
  ELSE IF Len(s.history.future) = 0 THEN s
  ELSE
    LET p == s.project[1]
        s1 == IF s.uncommittedMove # Null THEN cancelMove(s) ELSE s
        nextEntry == s.history.future[1]
        target == FindScene(p, nextEntry.sceneId)
    IN IF target = Null THEN s1
       ELSE
         LET targetScene == target[1]
             currentEntry ==
               HistoryEntry(targetScene.id, targetScene.placements, "undo point", Null)
         IN [s1 EXCEPT
               !.project = Some([SetPlacements(p, targetScene.id, nextEntry.placements)
                                   EXCEPT !.activeSceneId = targetScene.id]),
               !.history =
                  [past |-> Append(s.history.past, currentEntry),
                   future |-> Tail(s.history.future)],
               !.uncommittedMove = Null,
               !.selection = [s1.selection EXCEPT !.tileIds = {}]]

redo(s) ==
  IF s.project = Null THEN s
  ELSE IF Len(s.history.future) = 0 THEN s
  ELSE
    LET \* project and history were read before the nested cancelMove()
        p == s.project[1]
        s1 == IF s.uncommittedMove # Null THEN cancelMove(s) ELSE s
        nextEntry == s.history.future[1]
        target == FindScene(p, nextEntry.sceneId)
    IN IF target = Null THEN s1
       ELSE
         LET targetScene == target[1]
             currentEntry ==
               HistoryEntry(targetScene.id, targetScene.placements, "undo point", Null)
             restoredUncommittedMove == nextEntry.uncommittedMove
         IN [s1 EXCEPT
               !.project = Some([SetPlacements(p, targetScene.id, nextEntry.placements)
                                   EXCEPT !.activeSceneId = targetScene.id]),
               !.history =
                  [past |-> Append(s.history.past, currentEntry),
                   future |-> Tail(s.history.future)],
               !.uncommittedMove = restoredUncommittedMove,
               !.selection =
                  [s1.selection EXCEPT !.tileIds =
                     IF restoredUncommittedMove # Null
                     THEN restoredUncommittedMove[1].placementIds
                     ELSE {}]]

\* Variant of canUndo that looks at past only.
canUndo_pastOnly(s) ==
  IF s.project = Null THEN FALSE
  ELSE Len(s.history.past) > 0

canUndo(s) ==
  IF s.project = Null THEN FALSE
  ELSE s.uncommittedMove # Null \/ Len(s.history.past) > 0

canRedo(s) ==
  IF s.project = Null THEN FALSE
  ELSE Len(s.history.future) > 0

(***************************************************************************)
(* Project and scenes: createProject, loadProject, createScene,            *)
(* setActiveScene, deleteScene; setPlacementLocked, setEdgeLocked          *)
(***************************************************************************)
createProject(s) ==
  [s EXCEPT !.project =
     Some([scenes |-> << >>, activeSceneId |-> NoScene, tiles |-> {}])]

loadProject(s, loaded) == [s EXCEPT !.project = Some(loaded)]

\* id stands for the value generateId() returns: an id no scene has yet.
createScene(s, id, gridWidth, gridHeight) ==
  IF s.project = Null THEN s
  ELSE
    LET p == s.project[1]
        scene == [id |-> id, gridWidth |-> gridWidth, gridHeight |-> gridHeight,
                  placements |-> << >>, edges |-> << >>]
    IN [s EXCEPT !.project =
          Some([p EXCEPT !.scenes = Append(p.scenes, scene),
                         !.activeSceneId = scene.id])]

setActiveScene(s, sceneId) ==
  IF s.project = Null THEN s
  ELSE IF s.project[1].activeSceneId = sceneId THEN s
  ELSE
    LET \* project was read before the nested commitMove()
        p == s.project[1]
        s1 == IF s.uncommittedMove # Null THEN commitMove(s) ELSE s
    IN [s1 EXCEPT
          !.project = Some([p EXCEPT !.activeSceneId = sceneId]),
          !.selection = [tileIds |-> {}, edgeIds |-> {}, mode |-> "tiles"]]

deleteScene(s, sceneId) ==
  IF s.project = Null THEN s
  ELSE
    LET p == s.project[1]
        newScenes == SelectSeq(p.scenes, LAMBDA sc : sc.id # sceneId)
        newActiveId ==
          IF p.activeSceneId = sceneId
          THEN (IF Len(newScenes) > 0 THEN newScenes[1].id ELSE NoScene)
          ELSE p.activeSceneId
    IN [s EXCEPT
          !.project = Some([p EXCEPT !.scenes = newScenes,
                                     !.activeSceneId = newActiveId]),
          !.selection = [tileIds |-> {}, edgeIds |-> {}, mode |-> "tiles"]]

setPlacementLocked(s, placementId, locked) ==
  IF s.project = Null THEN s
  ELSE IF s.project[1].activeSceneId = NoScene THEN s
  ELSE
    LET p == s.project[1]
    IN [s EXCEPT !.project = Some([p EXCEPT !.scenes =
          [i \in 1..Len(p.scenes) |->
             IF p.scenes[i].id = p.activeSceneId
             THEN [p.scenes[i] EXCEPT !.placements =
                     [j \in 1..Len(p.scenes[i].placements) |->
                        IF p.scenes[i].placements[j].id = placementId
                        THEN [p.scenes[i].placements[j] EXCEPT !.locked = locked]
                        ELSE p.scenes[i].placements[j]]]
             ELSE p.scenes[i]]])]

setEdgeLocked(s, edgeId, locked) ==
  IF s.project = Null THEN s
  ELSE IF s.project[1].activeSceneId = NoScene THEN s
  ELSE
    LET p == s.project[1]
    IN [s EXCEPT !.project = Some([p EXCEPT !.scenes =
          [i \in 1..Len(p.scenes) |->
             IF p.scenes[i].id = p.activeSceneId
             THEN [p.scenes[i] EXCEPT !.edges =
                     [j \in 1..Len(p.scenes[i].edges) |->
                        IF p.scenes[i].edges[j].id = edgeId
                        THEN [p.scenes[i].edges[j] EXCEPT !.locked = locked]
                        ELSE p.scenes[i].edges[j]]]
             ELSE p.scenes[i]]])]

(***************************************************************************)
(* Initial state: a project loaded with one 4 x 2 scene                    *)
(***************************************************************************)
InitLayouts ==
  { << >>,
    <<Placement(1, "t1", 2, 0), Placement(2, "t2", 3, 0)>> }

LoadedScene(pls) ==
  [id |-> "s1", gridWidth |-> 4, gridHeight |-> 2,
   placements |-> pls, edges |-> << >>]

LoadedProject(pls) ==
  [scenes |-> <<LoadedScene(pls)>>, activeSceneId |-> "s1", tiles |-> TileIds]

InitSelection == [tileIds |-> {}, edgeIds |-> {}, mode |-> "tiles"]

\* The canvas component's own state (Canvas.tsx useState): no drag in
\* progress, no move offset, no box-selection corner.
DragState(mode, gx, gy, shiftKey, ctrlKey) ==
  [mode |-> mode, startGridX |-> gx, startGridY |-> gy,
   shiftKey |-> shiftKey, ctrlKey |-> ctrlKey]
NoDrag == DragState("none", Null, Null, FALSE, FALSE)
NoOffset == [dx |-> 0, dy |-> 0]
CanvasAtRest ==
  /\ dragState = NoDrag
  /\ moveOffset = NoOffset
  /\ boxSelectEnd = Null
InitHistory == [past |-> << >>, future |-> << >>]

Init ==
  /\ \E pls \in InitLayouts : project = Some(LoadedProject(pls))
  /\ selection = InitSelection
  /\ uncommittedMove = Null
  /\ history = InitHistory
  /\ nextId = FirstFreshId
  /\ lastOp = [op |-> "loadProject", wasOpen |-> FALSE, activeWas |-> NoScene]
  /\ steps = 0
  /\ CanvasAtRest

(***************************************************************************)
(* Actions: one per store operation                                        *)
(***************************************************************************)
Open == uncommittedMove # Null
Idle == uncommittedMove = Null

\* The placements of the active scene in the current state.
ScenePlacements(s) ==
  IF getActiveScene(s) = Null THEN << >> ELSE getActiveScene(s)[1].placements

Apply(s, op) ==
  /\ project' = s.project
  /\ selection' = s.selection
  /\ uncommittedMove' = s.uncommittedMove
  /\ history' = s.history
  /\ nextId' = s.nextId
  /\ lastOp' = [op |-> op, wasOpen |-> Open,
                activeWas |-> IF project = Null THEN NoScene
                              ELSE project[1].activeSceneId]
  /\ UNCHANGED <<dragState, moveOffset, boxSelectEnd>>

\* One more operation of a run of Spec.
\* Apply, with the arguments of the call kept in lastOp.
ApplyArgs(s, op, args) ==
  /\ project' = s.project
  /\ selection' = s.selection
  /\ uncommittedMove' = s.uncommittedMove
  /\ history' = s.history
  /\ nextId' = s.nextId
  /\ lastOp' = [op |-> op, wasOpen |-> Open,
                activeWas |-> IF project = Null THEN NoScene
                              ELSE project[1].activeSceneId,
                args |-> args]
  /\ UNCHANGED <<dragState, moveOffset, boxSelectEnd>>

Step == steps < MaxSteps /\ steps' = steps + 1
\* Room for n more generated ids.
FreshRoom(n) == nextId + n - 1 <= FirstFreshId + MaxFresh - 1

\* Inputs of the actions: the tile and cells of placeTile, the offsets and id
\* lists of movePlacements (the selected ids, as Canvas.tsx passes them, or
\* one id, possibly of no placement).
PlaceTiles == {"t1"}
PlaceCells == {<<2, 0>>, <<0, 1>>}
Offsets == {<<1, 0>>, <<-1, 0>>, <<0, 1>>}
MoveIdSets == {selection.tileIds} \cup {{i} : i \in AllIds}

\* Canvas.tsx handleMouseUp: a drag that would take a listed placement off the
\* grid does not call movePlacements.
WouldBeOffScene(s, ids, dx, dy) ==
  LET sc == getActiveScene(s)
  IN sc # Null /\
     \E i \in 1..Len(sc[1].placements) :
        LET q == sc[1].placements[i]
        IN q.id \in ids /\
           (q.gridX + dx < 0 \/ q.gridX + dx >= sc[1].gridWidth \/
            q.gridY + dy < 0 \/ q.gridY + dy >= sc[1].gridHeight)

PlaceTile ==
  /\ FreshRoom(1)
  /\ Step
  /\ \E t \in PlaceTiles, c \in PlaceCells : Apply(placeTile(St, t, c[1], c[2]), "placeTile")

\* The call's arguments are remembered with it.
MovePlacements ==
  \E ids \in MoveIdSets, d \in Offsets :
     /\ Step
     /\ ids # {}
     /\ ~WouldBeOffScene(St, ids, d[1], d[2])
     /\ ApplyArgs(movePlacements(St, ids, d[1], d[2]), "movePlacements",
                  [placementIds |-> ids, dx |-> d[1], dy |-> d[2]])

CommitMove ==
  /\ Open
  /\ Step
  /\ Apply(commitMove(St), "commitMove")

CancelMove ==
  /\ Open
  /\ Step
  /\ Apply(cancelMove(St), "cancelMove")

Undo ==
  /\ canUndo(St)
  /\ Step
  /\ Apply(undo(St), "undo")

Redo ==
  /\ canRedo(St)
  /\ Step
  /\ Apply(redo(St), "redo")

DeleteSelectedPlacements ==
  /\ selection.tileIds # {}
  /\ Step
  /\ Apply(deleteSelectedPlacements(St), "deleteSelectedPlacements")

DuplicateSelectedPlacements ==
  /\ Step
  /\ selection.tileIds # {}
  /\ FreshRoom(Cardinality(selection.tileIds))
  /\ Apply(duplicateSelectedPlacements(St), "duplicateSelectedPlacements")

SelectTile ==
  /\ Step
  /\ \E id \in IdsOf(ScenePlacements(St)), additive \in BOOLEAN :
        Apply(selectTile(St, id, additive), "selectTile")

Next ==
  \/ PlaceTile
  \/ MovePlacements
  \/ CommitMove
  \/ CancelMove
  \/ Undo
  \/ Redo
  \/ DeleteSelectedPlacements
  \/ DuplicateSelectedPlacements
  \/ SelectTile

Spec == Init /\ [][Next]_vars

(***************************************************************************)
(* SpecCap: pushHistory from Idle until past is full, then placeTile,       *)
(* undo() of the uncommitted move and redo(); no bound on the number of    *)
(* operations                                                              *)
(***************************************************************************)
CapPushHistory ==
  /\ Idle
  /\ UNCHANGED steps
  /\ Apply(pushHistory(St, "edit"), "pushHistory")

CapPlaceTile ==
  /\ Len(history.past) = MAX_HISTORY_SIZE
  /\ FreshRoom(1)
  /\ UNCHANGED steps
  /\ \E t \in PlaceTiles, c \in PlaceCells :
        Apply(placeTile(St, t, c[1], c[2]), "placeTile")

CapUndo ==
  /\ Open
  /\ UNCHANGED steps
  /\ Apply(undo(St), "undo")

\* redo() is explored until past is one entry over MAX_HISTORY_SIZE.
CapRedo ==
  /\ canRedo(St)
  /\ Len(history.past) <= MAX_HISTORY_SIZE
  /\ UNCHANGED steps
  /\ Apply(redo(St), "redo")

NextCap ==
  \/ CapPushHistory
  \/ CapPlaceTile
  \/ CapUndo
  \/ CapRedo

SpecCap == Init /\ [][NextCap]_vars

(***************************************************************************)
(* SpecScenes: the store from its construction (no project), with the      *)
(* project and scene operations next to the editing operations             *)
(***************************************************************************)
SecondScene ==
  [id |-> "s2", gridWidth |-> 4, gridHeight |-> 2,
   placements |-> << >>, edges |-> << >>]

\* The projects loadProject is given: one scene, or two with the first active.
LoadedProjects ==
  { LoadedProject(<<Placement(1, "t1", 2, 0), Placement(2, "t2", 3, 0)>>),
    [scenes |-> <<LoadedScene(<<Placement(1, "t1", 2, 0), Placement(2, "t2", 3, 0)>>),
                  SecondScene>>,
     activeSceneId |-> "s1", tiles |-> TileIds] }

\* The ids generateId() gives to created scenes.
FreshSceneIds == {"s3"}

SceneIdsOf(s) ==
  IF s.project = Null THEN {}
  ELSE {s.project[1].scenes[i].id : i \in 1..Len(s.project[1].scenes)}

InitScenes ==
  /\ project = Null
  /\ selection = InitSelection
  /\ uncommittedMove = Null
  /\ history = InitHistory
  /\ nextId = FirstFreshId
  /\ lastOp = [op |-> "create", wasOpen |-> FALSE, activeWas |-> NoScene]
  /\ steps = 0
  /\ CanvasAtRest

CreateProject ==
  /\ project = Null
  /\ Step
  /\ Apply(createProject(St), "createProject")

LoadProject ==
  /\ project = Null
  /\ Step
  /\ \E loaded \in LoadedProjects : Apply(loadProject(St, loaded), "loadProject")

CreateScene ==
  /\ project # Null
  /\ Step
  /\ \E id \in FreshSceneIds \ SceneIdsOf(St) :
        Apply(createScene(St, id, 4, 2), "createScene")

SetActiveScene ==
  /\ Step
  /\ \E sid \in SceneIdsOf(St) : Apply(setActiveScene(St, sid), "setActiveScene")

DeleteScene ==
  /\ Step
  /\ \E sid \in SceneIdsOf(St) : Apply(deleteScene(St, sid), "deleteScene")

NextScenes ==
  \/ CreateProject
  \/ LoadProject
  \/ CreateScene
  \/ SetActiveScene
  \/ DeleteScene
  \/ PlaceTile
  \/ MovePlacements
  \/ CommitMove
  \/ CancelMove
  \/ Undo
  \/ Redo
  \/ DeleteSelectedPlacements
  \/ DuplicateSelectedPlacements
  \/ SelectTile

SpecScenes == InitScenes /\ [][NextScenes]_vars

(***************************************************************************)
(* SpecSelect: a scene with edges; area selection in the three selection   *)
(* modes next to the operations that open and commit a transaction         *)
(***************************************************************************)
Edge(id, x, y, orientation) ==
  [id |-> id, x |-> x, y |-> y, orientation |-> orientation, locked |-> FALSE]

\* The loaded scene with three edges: one inside the grid, one on its right
\* border, one at its bottom right corner.
SceneWithEdges ==
  [LoadedScene(<<Placement(1, "t1", 2, 0), Placement(2, "t2", 3, 0)>>)
     EXCEPT !.edges = <<Edge("e1", 2, 0, "vertical"),
                        Edge("e2", 4, 0, "vertical"),
                        Edge("e3", 4, 2, "horizontal")>>]

InitSelect ==
  /\ project = Some([scenes |-> <<SceneWithEdges>>, activeSceneId |-> "s1",
                     tiles |-> TileIds])
  /\ selection = InitSelection
  /\ uncommittedMove = Null
  /\ history = InitHistory
  /\ nextId = FirstFreshId
  /\ lastOp = [op |-> "loadProject", wasOpen |-> FALSE, activeWas |-> NoScene]
  /\ steps = 0
  /\ CanvasAtRest

SelectionModes == {"tiles", "edges", "both"}

\* The rectangles a selection drag ends with: <<minX, minY, maxX, maxY>>.
Areas == {<<2, 0, 2, 0>>, <<0, 0, 3, 1>>, <<3, 0, 3, 1>>, <<0, 1, 1, 1>>}

SetSelectionMode ==
  /\ Step
  /\ \E mode \in SelectionModes \ {selection.mode} :
        Apply(setSelectionMode(St, mode), "setSelectionMode")

SelectArea ==
  /\ Step
  /\ \E a \in Areas, additive \in BOOLEAN :
        Apply(selectArea(St, a[1], a[2], a[3], a[4], additive), "selectArea")

DeselectArea ==
  /\ Step
  /\ \E a \in Areas :
        Apply(deselectArea(St, a[1], a[2], a[3], a[4]), "deselectArea")

NextSelect ==
  \/ SetSelectionMode
  \/ SelectArea
  \/ DeselectArea
  \/ PlaceTile
  \/ MovePlacements
  \/ CommitMove
  \/ SelectTile

SpecSelect == InitSelect /\ [][NextSelect]_vars

(***************************************************************************)
(* Vocabulary of the properties                                            *)
(***************************************************************************)
HasScene == getActiveScene(St) # Null

\* Number of occurrences of the placement q in a list.
Count(pls, q) == Cardinality({i \in 1..Len(pls) : pls[i] = q})

\* The two lists hold the same placements (id, tile, cell, lock), each as
\* many times in one as in the other.
SamePlacements(a, b) ==
  /\ Len(a) = Len(b)
  /\ \A i \in 1..Len(a) : Count(a, a[i]) = Count(b, a[i])

\* The cells at which a list holds a placement with this id.
CellsOf(pls, id) ==
  {<<pls[i].gridX, pls[i].gridY>> : i \in {j \in 1..Len(pls) : pls[j].id = id}}

Last(seq) == seq[Len(seq)]

\* Inputs the properties range over: every cell of the active scene's grid,
\* the offsets of at most one cell along an axis, every non-empty list of ids.
SceneCells ==
  IF ~HasScene THEN {}
  ELSE (0..(getActiveScene(St)[1].gridWidth - 1))
         \X (0..(getActiveScene(St)[1].gridHeight - 1))
AnyOffsets == {<<0, 0>>, <<1, 0>>, <<-1, 0>>, <<0, 1>>, <<0, -1>>}
AnyIdSets == (SUBSET AllIds) \ {{}}

RECURSIVE UndoTimes(_, _)
UndoTimes(s, n) == IF n <= 0 THEN s ELSE UndoTimes(undo(s), n - 1)

RECURSIVE RedoTimes(_, _)
RedoTimes(s, n) == IF n <= 0 THEN s ELSE RedoTimes(redo(s), n - 1)

\* The state o of an Open transaction, and the states one further
\* movePlacements call leads to from it.
ContinuedFrom(o) ==
  {o} \cup {movePlacements(o, ids, d[1], d[2]) : ids \in AnyIdSets, d \in AnyOffsets}

OpensTransaction == {"placeTile", "movePlacements", "duplicateSelectedPlacements"}

(***************************************************************************)
(* C1                                                                      *)
(***************************************************************************)
\* o is the state an operation O leads to from the current state: undoing
\* once per entry O pushed gives back the current placements, redoing as
\* many times gives back those of o.
RoundTrip(o) ==
  LET n == Len(o.history.past) - Len(history.past)
      u == UndoTimes(o, n)
      r == RedoTimes(u, n)
  IN /\ SamePlacements(ScenePlacements(u), ScenePlacements(St))
     /\ SamePlacements(ScenePlacements(r), ScenePlacements(o))

\* C1: from any Idle state S, each of placeTile + commit, movePlacements +
\* commit, duplicateSelectedPlacements + commit and deleteSelectedPlacements,
\* followed by one undo() per pushed entry, gives back the placements of S, and
\* the matching redo() calls give back the placements right after the operation.
C1_UndoRedoRoundTrip ==
  [][ (Idle /\ HasScene) =>
        /\ lastOp'.op \in OpensTransaction => RoundTrip(commitMove(St'))
        /\ lastOp'.op = "deleteSelectedPlacements" => RoundTrip(St') ]_vars

(***************************************************************************)
(* C2                                                                      *)
(***************************************************************************)
\* C2: history.past never holds more than MAX_HISTORY_SIZE entries, and a
\* push onto a full past drops the oldest entry.
C2_HistoryCap ==
  [][ /\ Len(history'.past) <= MAX_HISTORY_SIZE
      /\ (/\ Len(history.past) = MAX_HISTORY_SIZE
          /\ Len(history'.past) >= MAX_HISTORY_SIZE
          /\ history'.past # history.past) =>
            SubSeq(history'.past, 1, MAX_HISTORY_SIZE - 1) = Tail(history.past)
    ]_vars

(***************************************************************************)
(* C3                                                                      *)
(***************************************************************************)
\* C3: commitMove() on an Open transaction leaves every live placement in the
\* active scene at the cell it had just before, removes every placement listed
\* in replacedPlacements from the scene, and leaves the transaction Idle.
C3_CommitPreservesLive ==
  (Open /\ HasScene) =>
    LET um == uncommittedMove[1]
        before == ScenePlacements(St)
        committed == commitMove(St)
        after == ScenePlacements(committed)
    IN /\ committed.uncommittedMove = Null
       /\ \A i \in 1..Len(before) :
             before[i].id \in um.placementIds =>
               /\ Count(after, before[i]) >= 1
               /\ CellsOf(after, before[i].id) = CellsOf(before, before[i].id)
       /\ \A k \in 1..Len(um.replacedPlacements) :
             um.replacedPlacements[k].id \notin IdsOf(after)

\* A commit has just folded a move that covered another placement: the entry
\* it pushed still holds the covered placement, the scene does not, and the
\* moved placement is in the scene.
C3_Witness ==
  /\ lastOp.op = "commitMove"
  /\ lastOp.wasOpen
  /\ Idle
  /\ Len(history.past) > 0
  /\ Last(history.past).description = "move tiles"
  /\ IdsOf(Last(history.past).placements) \ IdsOf(ScenePlacements(St)) # {}
  /\ ScenePlacements(St) # << >>

(***************************************************************************)
(* C4, C5, C6                                                              *)
(***************************************************************************)
\* C4: the entry commitMove() appends to past holds exactly the placements
\* the active scene had when the transaction opened (moved placements at
\* their old cell, created placements absent, every other placement once).
C4_CommitEntryIsPreTransaction ==
  [][ (Idle /\ HasScene /\ lastOp'.op \in OpensTransaction /\ Open') =>
        \A o \in ContinuedFrom(St') :
           SamePlacements(Last(commitMove(o).history.past).placements,
                          ScenePlacements(St)) ]_vars

\* C5: cancelMove() after a transaction opened from Idle and continued by
\* movePlacements calls puts every earlier placement back at its cell and
\* removes every placement the transaction created.
C5_IdempotentCancel ==
  [][ (Idle /\ HasScene /\ lastOp'.op \in OpensTransaction /\ Open') =>
        \A o \in ContinuedFrom(St') :
           SamePlacements(ScenePlacements(cancelMove(o)), ScenePlacements(St)) ]_vars

\* C6: from Idle with an empty past, placeTile followed by undo() leaves the
\* scene with exactly the placements it had, the transaction Idle and
\* canUndo() false.
C6_PlaceThenUndo ==
  [][ (Idle /\ HasScene /\ history.past = << >> /\ lastOp'.op = "placeTile") =>
        LET u == undo(St')
        IN /\ SamePlacements(ScenePlacements(u), ScenePlacements(St))
           /\ u.uncommittedMove = Null
           /\ ~canUndo(u) ]_vars

(***************************************************************************)
(* C7                                                                      *)
(***************************************************************************)
Cell(q) == <<q.gridX, q.gridY>>

\* The past after one entry was pushed onto old (the oldest entry dropped
\* when old was full).
PushedOnto(old, new) ==
  /\ Len(new) >= 1
  /\ SubSeq(new, 1, Len(new) - 1) =
       (IF Len(old) < MAX_HISTORY_SIZE THEN old ELSE Tail(old))

\* C7: from Idle, for a placement P at cell c and an offset d,
\* movePlacements([P], d) puts P at c+d with the transaction Open and
\* originalPositions = {P: c}; commitMove() adds one entry to past in which P is
\* at c; undo() puts P back at c and an entry with P at c+d at the front of
\* future; redo() puts P at c+d again.
C7_MoveCommitUndoRedo ==
  (Idle /\ HasScene) =>
    \A i \in 1..Len(ScenePlacements(St)), d \in AnyOffsets :
       LET P == ScenePlacements(St)[i].id
           c == Cell(ScenePlacements(St)[i])
           cd == <<c[1] + d[1], c[2] + d[2]>>
           m == movePlacements(St, {P}, d[1], d[2])
           k == commitMove(m)
           u == undo(k)
           r == redo(u)
       IN /\ CellsOf(ScenePlacements(m), P) = {cd}
          /\ m.uncommittedMove # Null
          /\ m.uncommittedMove[1].originalPositions =
               [id \in {P} |-> [gridX |-> c[1], gridY |-> c[2]]]
          /\ PushedOnto(history.past, k.history.past)
          /\ CellsOf(Last(k.history.past).placements, P) = {c}
          /\ CellsOf(ScenePlacements(u), P) = {c}
          /\ Len(u.history.future) = Len(k.history.future) + 1
          /\ CellsOf(u.history.future[1].placements, P) = {cd}
          /\ CellsOf(ScenePlacements(r), P) = {cd}

\* A placement has been moved, the move committed, undone and redone: the
\* redo left the transaction Idle, emptied future and pushed its undo point,
\* in which the placement is at the cell it was moved from.
C7_Witness ==
  /\ lastOp.op = "redo"
  /\ Idle
  /\ history.future = << >>
  /\ Len(history.past) >= 1
  /\ Last(history.past).description = "undo point"
  /\ \E i \in 1..Len(ScenePlacements(St)) :
        LET q == ScenePlacements(St)[i]
        IN /\ CellsOf(Last(history.past).placements, q.id) # {}
           /\ Cell(q) \notin CellsOf(Last(history.past).placements, q.id)

(***************************************************************************)
(* C8                                                                      *)
(***************************************************************************)
\* The placements of the active scene that the selection lists.
SelectedPlacements ==
  SelectSeq(ScenePlacements(St), LAMBDA q : q.id \in selection.tileIds)

\* C8: the clones of duplicateSelectedPlacements are offset by (w, 0), w the
\* width of the selection's bounding box, when the shifted box fits within
\* gridWidth; else by (0, h), h its height, when that fits within gridHeight;
\* else by (1, 1).  In a 4-wide scene with the selection in columns 2-3 and
\* room below, the clones land at (x, y + h).
C8_DuplicateOffset ==
  (HasScene /\ Len(SelectedPlacements) > 0) =>
    LET scene == getActiveScene(St)[1]
        sel == SelectedPlacements
        xs == {sel[i].gridX : i \in 1..Len(sel)}
        ys == {sel[i].gridY : i \in 1..Len(sel)}
        w == MaxOf(xs) - MinOf(xs) + 1
        h == MaxOf(ys) - MinOf(ys) + 1
        fitsRight == \A x \in xs : x + w <= scene.gridWidth - 1
        fitsBelow == \A y \in ys : y + h <= scene.gridHeight - 1
        off == IF fitsRight THEN <<w, 0>>
               ELSE IF fitsBelow THEN <<0, h>> ELSE <<1, 1>>
        after == ScenePlacements(duplicateSelectedPlacements(St))
        clones == SelectSeq(after, LAMBDA q : q.id >= nextId)
    IN /\ Len(clones) = Len(sel)
       /\ \A i \in 1..Len(sel) :
             /\ clones[i].tileId = sel[i].tileId
             /\ Cell(clones[i]) = <<sel[i].gridX + off[1], sel[i].gridY + off[2]>>
       /\ (scene.gridWidth = 4 /\ xs = {2, 3} /\ fitsBelow) =>
             \A i \in 1..Len(sel) :
                Cell(clones[i]) = <<sel[i].gridX, sel[i].gridY + h>>

\* The two placements in columns 2-3 of the 4-wide scene have just been
\* duplicated: the clones are the live placements, at (2, 1) and (3, 1).
C8_Witness ==
  /\ lastOp.op = "duplicateSelectedPlacements"
  /\ Open
  /\ HasScene
  /\ getActiveScene(St)[1].gridWidth = 4
  /\ Cardinality(uncommittedMove[1].placementIds) = 2
  /\ {Cell(q) : q \in {ScenePlacements(St)[i] : i \in 1..Len(ScenePlacements(St))}
                  \ {x \in {ScenePlacements(St)[i] : i \in 1..Len(ScenePlacements(St))} :
                       x.id \in uncommittedMove[1].placementIds}}
       = {<<2, 0>>, <<3, 0>>}
  /\ \A id \in uncommittedMove[1].placementIds :
        CellsOf(ScenePlacements(St), id) \subseteq {<<2, 1>>, <<3, 1>>}
  /\ UNION {CellsOf(ScenePlacements(St), id) : id \in uncommittedMove[1].placementIds}
       = {<<2, 1>>, <<3, 1>>}

(***************************************************************************)
(* C9, C10                                                                 *)
(***************************************************************************)
\* C9: every id in selection.tileIds is the id of a placement of the active
\* scene.
C9_SelectionConsistency ==
  selection.tileIds \subseteq IdsOf(ScenePlacements(St))

\* C10: an Open transaction is a pure creation (no live id has an original
\* position) or a pure move (every live id has one), and originalPositions
\* has no entry for an id outside placementIds.
C10_TransactionPurity ==
  Open =>
    LET um == uncommittedMove[1]
    IN /\ \/ um.placementIds \cap DOMAIN um.originalPositions = {}
          \/ um.placementIds \subseteq DOMAIN um.originalPositions
       /\ DOMAIN um.originalPositions \subseteq um.placementIds

(***************************************************************************)
(* C11, C12                                                                *)
(***************************************************************************)
\* Scene, transaction, selection and ledger of two store states are the same.
SameStore(a, b) ==
  /\ a.project = b.project
  /\ a.uncommittedMove = b.uncommittedMove
  /\ a.selection = b.selection
  /\ a.history = b.history

\* C11: placeTile(t, x, y) while a transaction is Open gives the same scene,
\* transaction, selection and ledger as commitMove() followed by
\* placeTile(t, x, y) from Idle.
C11_PlaceWhileOpenCommitsFirst ==
  (Open /\ HasScene) =>
    \A t \in TileIds, c \in SceneCells :
       SameStore(placeTile(St, t, c[1], c[2]),
                 placeTile(commitMove(St), t, c[1], c[2]))

\* C12: duplicateSelectedPlacements while a transaction is Open gives the same
\* scene, transaction, selection and ledger as commitMove() followed by
\* duplicateSelectedPlacements from Idle.
C12_DuplicateWhileOpenCommitsFirst ==
  (Open /\ HasScene) =>
    SameStore(duplicateSelectedPlacements(St),
              duplicateSelectedPlacements(commitMove(St)))

(***************************************************************************)
(* C13                                                                     *)
(***************************************************************************)
\* C13: setActiveScene(s) to another scene while a transaction is Open leaves
\* the transaction Idle, adds one entry tagged with the old scene to past,
\* leaves the old scene without the replaced placements and with the live
\* placements at their cells, makes s the active scene and empties both
\* selection sets.
C13_SwitchSceneCommits ==
  (Open /\ HasScene) =>
    \A sid \in SceneIdsOf(St) \ {project[1].activeSceneId} :
       LET um == uncommittedMove[1]
           oldId == project[1].activeSceneId
           before == ScenePlacements(St)
           o == setActiveScene(St, sid)
           old == FindScene(o.project[1], oldId)[1].placements
       IN /\ o.uncommittedMove = Null
          /\ PushedOnto(history.past, o.history.past)
          /\ Last(o.history.past).sceneId = oldId
          /\ \A k \in 1..Len(um.replacedPlacements) :
                um.replacedPlacements[k].id \notin IdsOf(old)
          /\ \A i \in 1..Len(before) :
                before[i].id \in um.placementIds =>
                  CellsOf(old, before[i].id) = CellsOf(before, before[i].id)
          /\ o.project[1].activeSceneId = sid
          /\ o.selection.tileIds = {}
          /\ o.selection.edgeIds = {}

(***************************************************************************)
(* C14                                                                     *)
(***************************************************************************)
\* The transaction has moved a placement (originalPositions is not empty).
HasMoves == Open /\ DOMAIN uncommittedMove[1].originalPositions # {}

C15_RedoWhileOpenCancelsFirst ==
  (Open /\ HasScene /\ canRedo(St)) =>
    SameStore(redo(St), redo(cancelMove(St)))

PushedOneEntry(o) ==
  /\ PushedOnto(history.past, o.history.past)
  /\ o.history.future = << >>
  /\ ~canRedo(o)

\* The placements the active scene had when the Open transaction began, as
\* cancelMove() gives them back.
BeforeTransaction == ScenePlacements(cancelMove(St))

\* C17: deleteSelectedPlacements, duplicateSelectedPlacements and commitMove,
\* whenever they change the active scene's placements, push exactly one entry
\* holding the placements from before the change and empty future, and the
\* next undo() from Idle gives those placements back.  For commitMove the
\* placements from before the change are read either as those just before
\* the commit or as those from before the transaction.
C17_OrderingGuarantee ==
  HasScene =>
    /\ LET o == deleteSelectedPlacements(St)
       IN ScenePlacements(o) # ScenePlacements(St) =>
            /\ PushedOneEntry(o)
            /\ SamePlacements(Last(o.history.past).placements, ScenePlacements(St))
            /\ SamePlacements(ScenePlacements(undo(o)), ScenePlacements(St))
    /\ LET o == duplicateSelectedPlacements(St)
       IN ScenePlacements(o) # ScenePlacements(St) =>
            /\ PushedOneEntry(o)
            /\ SamePlacements(Last(o.history.past).placements, ScenePlacements(St))
            /\ SamePlacements(ScenePlacements(undo(commitMove(o))),
                              ScenePlacements(St))
    /\ LET o == commitMove(St)
       IN (Open /\ ScenePlacements(o) # ScenePlacements(St)) =>
            /\ PushedOneEntry(o)
            /\ \/ /\ SamePlacements(Last(o.history.past).placements,
                                    ScenePlacements(St))
                  /\ SamePlacements(ScenePlacements(undo(o)), ScenePlacements(St))
               \/ /\ SamePlacements(Last(o.history.past).placements,
                                    BeforeTransaction)
                  /\ SamePlacements(ScenePlacements(undo(o)), BeforeTransaction)

(***************************************************************************)
(* C18                                                                     *)
(***************************************************************************)
\* The store state with the tile selection replaced by ids.
WithSelection(ids) == [St EXCEPT !.selection.tileIds = ids]

\* C18: for a list of ids of which some are not in the active scene,
\* removePlacements, deleteSelectedPlacements and movePlacements treat the
\* placements that exist as if the stale ids had not been listed, and the
\* stale ids are recorded neither in the selection nor in the transaction's
\* placementIds or originalPositions.
C18_StaleIds ==
  HasScene =>
    \A ids \in AnyIdSets :
       LET present == ids \cap IdsOf(ScenePlacements(St))
           stale == ids \ present
           old == IF Open THEN DOMAIN uncommittedMove[1].originalPositions ELSE {}
       IN stale # {} =>
            /\ ScenePlacements(removePlacements(St, ids)) =
                 ScenePlacements(removePlacements(St, present))
            /\ LET o == deleteSelectedPlacements(WithSelection(ids))
               IN /\ ScenePlacements(o) =
                       SelectSeq(ScenePlacements(St), LAMBDA q : q.id \notin present)
                  /\ o.selection.tileIds \cap stale = {}
            /\ \A d \in AnyOffsets :
                  LET m == movePlacements(St, ids, d[1], d[2])
                  IN /\ ScenePlacements(m) =
                          ScenePlacements(movePlacements(St, present, d[1], d[2]))
                     /\ (DOMAIN m.uncommittedMove[1].originalPositions \ old)
                          \cap stale = {}
                     /\ m.uncommittedMove[1].placementIds \cap stale = {}

(***************************************************************************)
(* C19                                                                     *)
(***************************************************************************)
NoProjectOrScene == project = Null \/ project[1].activeSceneId = NoScene

\* Cells and edge ids the requests are made with when there is no scene.
AnyCells == (0..3) \X (0..1)
AnyEdgeIds == {"e1"}

\* C19: with no project or no active scene, placeTile, movePlacements,
\* duplicateSelectedPlacements, deleteSelectedPlacements, setPlacementLocked,
\* setEdgeLocked, cancelMove, undo and pushHistory leave the store state as it
\* is; with an empty tile selection, deleteSelectedPlacements and
\* duplicateSelectedPlacements leave it as it is, an Open transaction and the
\* history included.
C19_InvalidRequestsAreNoOps ==
  /\ NoProjectOrScene =>
       /\ \A t \in TileIds, c \in AnyCells : placeTile(St, t, c[1], c[2]) = St
       /\ \A ids \in AnyIdSets, d \in AnyOffsets :
             movePlacements(St, ids, d[1], d[2]) = St
       /\ duplicateSelectedPlacements(St) = St
       /\ deleteSelectedPlacements(St) = St
       /\ \A id \in AllIds, locked \in BOOLEAN :
             setPlacementLocked(St, id, locked) = St
       /\ \A id \in AnyEdgeIds, locked \in BOOLEAN :
             setEdgeLocked(St, id, locked) = St
       /\ cancelMove(St) = St
       /\ undo(St) = St
       /\ pushHistory(St, "edit") = St
  /\ selection.tileIds = {} =>
       /\ deleteSelectedPlacements(St) = St
       /\ duplicateSelectedPlacements(St) = St

\* undo() has just been called with a project whose last scene was deleted
\* while a transaction was Open: the transaction is still Open and there is
\* no active scene.
C19_Witness ==
  /\ lastOp.op = "undo"
  /\ lastOp.wasOpen
  /\ lastOp.activeWas = NoScene
  /\ project # Null
  /\ project[1].activeSceneId = NoScene
  /\ Open

(***************************************************************************)
(* C20                                                                     *)
(***************************************************************************)
\* C20: with a project, canUndo() is true exactly when a transaction is Open
\* or past is not empty, and canRedo() exactly when future is not empty; with
\* no project both are false.
C20_CanUndoCanRedo ==
  /\ project # Null =>
       /\ canUndo(St) <=> (Open \/ Len(history.past) > 0)
       /\ canRedo(St) <=> Len(history.future) > 0
  /\ project = Null => (~canUndo(St) /\ ~canRedo(St))

\* A transaction is Open on an empty past after an operation of the store:
\* canUndo() is true by the transaction alone.
C20_Witness ==
  /\ lastOp.op \in OpensTransaction
  /\ project # Null
  /\ Open
  /\ history.past = << >>
  /\ canUndo(St)

C22_SelectAreaCommitsFirst ==
  (Open /\ HasScene) =>
    \A a \in Areas, additive \in BOOLEAN :
       LET o == selectArea(St, a[1], a[2], a[3], a[4], additive)
       IN /\ o.uncommittedMove = Null
          /\ (o.selection.tileIds \ (IF additive THEN selection.tileIds ELSE {}))
               \subseteq IdsOf(ScenePlacements(o))

(***************************************************************************)
(* C25                                                                     *)
(***************************************************************************)
\* C25: selectArea from Idle gives tileIds = the old ones if additive, plus in
\* mode tiles or both the placements with minX <= gridX <= maxX and
\* minY <= gridY <= maxY, and edgeIds = the old ones if additive, plus in mode
\* edges or both the edges with minX <= x <= maxX + 1 and
\* minY <= y <= maxY + 1; deselectArea takes exactly those placements and
\* edges out of the current sets and changes nothing else.
C25_AreaSelection ==
  HasScene =>
    \A a \in Areas :
       LET pls == ScenePlacements(St)
           edges == getActiveScene(St)[1].edges
           mode == selection.mode
           tilesIn ==
             IF mode \in {"tiles", "both"}
             THEN {pls[i].id : i \in {j \in 1..Len(pls) :
                      /\ a[1] <= pls[j].gridX /\ pls[j].gridX <= a[3]
                      /\ a[2] <= pls[j].gridY /\ pls[j].gridY <= a[4]}}
             ELSE {}
           edgesIn ==
             IF mode \in {"edges", "both"}
             THEN {edges[i].id : i \in {j \in 1..Len(edges) :
                      /\ a[1] <= edges[j].x /\ edges[j].x <= a[3] + 1
                      /\ a[2] <= edges[j].y /\ edges[j].y <= a[4] + 1}}
             ELSE {}
           d == deselectArea(St, a[1], a[2], a[3], a[4])
       IN /\ Idle =>
               \A additive \in BOOLEAN :
                  LET o == selectArea(St, a[1], a[2], a[3], a[4], additive)
                  IN /\ o.selection.tileIds =
                          (IF additive THEN selection.tileIds ELSE {}) \cup tilesIn
                     /\ o.selection.edgeIds =
                          (IF additive THEN selection.edgeIds ELSE {}) \cup edgesIn
                     /\ o.selection.mode = mode
          /\ d.selection.tileIds = selection.tileIds \ tilesIn
          /\ d.selection.edgeIds = selection.edgeIds \ edgesIn
          /\ d = [St EXCEPT !.selection.tileIds = d.selection.tileIds,
                            !.selection.edgeIds = d.selection.edgeIds]

\* A selectArea from Idle in mode both has just selected a placement and the
\* edge at the bottom right corner of the grid, one unit beyond the
\* rectangle's max side.
C25_Witness ==
  /\ lastOp.op = "selectArea"
  /\ ~lastOp.wasOpen
  /\ selection.mode = "both"
  /\ "e3" \in selection.edgeIds
  /\ selection.tileIds # {}

(***************************************************************************)
(* C23                                                                     *)
(***************************************************************************)
\* The Open transaction is a pure move: every live id has an original
\* position and there is at least one.
PureMove ==
  /\ Open
  /\ uncommittedMove[1].placementIds # {}
  /\ uncommittedMove[1].placementIds = DOMAIN uncommittedMove[1].originalPositions

\* C23: undo() on an Open pure-move transaction puts every live placement
\* back at its original cell and leaves the scene with the same placements
\* otherwise (none removed, none added); the transaction stays Open with the
\* same placementIds and an empty originalPositions, and the tile selection
\* is unchanged.
C23_UndoPureMove ==
  (PureMove /\ HasScene) =>
    LET um == uncommittedMove[1]
        before == ScenePlacements(St)
        u == undo(St)
        after == ScenePlacements(u)
    IN /\ \A i \in 1..Len(before) :
             before[i].id \in um.placementIds =>
               CellsOf(after, before[i].id) =
                 {<<um.originalPositions[before[i].id].gridX,
                    um.originalPositions[before[i].id].gridY>>}
       /\ Len(after) = Len(before)
       /\ \A i \in 1..Len(before) :
             before[i].id \notin um.placementIds => Count(after, before[i]) = Count(before, before[i])
       /\ u.uncommittedMove # Null
       /\ u.uncommittedMove[1].placementIds = um.placementIds
       /\ DOMAIN u.uncommittedMove[1].originalPositions = {}
       /\ u.selection.tileIds = selection.tileIds

(***************************************************************************)
(* C24                                                                     *)
(***************************************************************************)
\* The Open transaction has no original positions: it only created
\* placements.
PureCreation ==
  /\ Open
  /\ uncommittedMove[1].placementIds # {}
  /\ DOMAIN uncommittedMove[1].originalPositions = {}

\* C24: undo() on an Open pure-creation transaction removes the created
\* placements, returns to Idle, clears the tile selection and puts the undone
\* state (the scene and the transaction) at the front of future; a redo()
\* right after it puts the created placements back with the same ids and
\* cells, reopens a transaction with the same placementIds, replacedPlacements
\* and originalPositions, and makes selection.tileIds those placementIds.
C24_UndoRedoPureCreation ==
  (PureCreation /\ HasScene) =>
    LET um == uncommittedMove[1]
        before == ScenePlacements(St)
        u == undo(St)
        r == redo(u)
    IN /\ \A i \in 1..Len(ScenePlacements(u)) :
             ScenePlacements(u)[i].id \notin um.placementIds
       /\ u.uncommittedMove = Null
       /\ u.selection.tileIds = {}
       /\ Len(u.history.future) = Len(history.future) + 1
       /\ Tail(u.history.future) = history.future
       /\ u.history.future[1].placements = before
       /\ u.history.future[1].uncommittedMove = Some(um)
       /\ \A id \in um.placementIds :
             CellsOf(ScenePlacements(r), id) = CellsOf(before, id)
       /\ \A i \in 1..Len(before) :
             before[i].id \in um.placementIds =>
               Count(ScenePlacements(r), before[i]) = Count(before, before[i])
       /\ r.uncommittedMove = Some(um)
       /\ r.selection.tileIds = um.placementIds

\* A redo has reopened a pure-creation transaction: the created placement is
\* in the scene, selected, and absent from the entry redo pushed onto past.
C24_Witness ==
  /\ lastOp.op = "redo"
  /\ PureCreation
  /\ selection.tileIds = uncommittedMove[1].placementIds
  /\ Len(history.past) > 0
  /\ Last(history.past).description = "undo point"
  /\ \E i \in 1..Len(ScenePlacements(St)) :
        /\ ScenePlacements(St)[i].id \in uncommittedMove[1].placementIds
        /\ ScenePlacements(St)[i].id \notin IdsOf(Last(history.past).placements)

(***************************************************************************)
(* Canvas.tsx: the mouse handlers of the canvas, the calls they make on    *)
(* the store and the component state they set                              *)
(***************************************************************************)
\* A call on the store and the store state after it.
Call(op, args) == [op |-> op, args |-> args]

Invoke(s, c) ==
  CASE c.op = "placeTile" -> placeTile(s, c.args[1], c.args[2], c.args[3])
    [] c.op = "selectTile" -> selectTile(s, c.args[1], c.args[2])
    [] c.op = "clearSelection" -> clearSelection(s)
    [] c.op = "movePlacements" -> movePlacements(s, c.args[1], c.args[2], c.args[3])
    [] c.op = "deleteSelectedPlacements" -> deleteSelectedPlacements(s)
    [] c.op = "selectArea" ->
         selectArea(s, c.args[1], c.args[2], c.args[3], c.args[4], c.args[5])
    [] c.op = "deselectArea" ->
         deselectArea(s, c.args[1], c.args[2], c.args[3], c.args[4])

RECURSIVE InvokeAll(_, _)
InvokeAll(s, calls) ==
  IF calls = << >> THEN s ELSE InvokeAll(Invoke(s, Head(calls)), Tail(calls))

\* What a handler did: its calls on the store and the component state it set.
Canvas ==
  [dragState |-> dragState, moveOffset |-> moveOffset, boxSelectEnd |-> boxSelectEnd]

Handled(calls, ds, mo, bse) ==
  [calls |-> calls, dragState |-> ds, moveOffset |-> mo, boxSelectEnd |-> bse]

\* screenToGrid: the cell under the pointer, null outside the grid or without
\* a scene; screenToGridUnbounded: the cell under the pointer, null without a
\* scene.
screenToGrid(s, cell) ==
  LET sc == getActiveScene(s)
  IN IF sc = Null THEN Null
     ELSE IF cell[1] < 0 \/ cell[1] >= sc[1].gridWidth \/
             cell[2] < 0 \/ cell[2] >= sc[1].gridHeight
          THEN Null
          ELSE Some(cell)

screenToGridUnbounded(s, cell) ==
  IF getActiveScene(s) = Null THEN Null ELSE Some(cell)

\* scene.placements.filter(p => p at gridPos)
PlacementsAtPos(s, gridPos) ==
  LET sc == getActiveScene(s)
  IN IF gridPos = Null \/ sc = Null THEN << >>
     ELSE SelectSeq(sc[1].placements,
                    LAMBDA q : q.gridX = gridPos[1][1] /\ q.gridY = gridPos[1][2])

\* placementsAtPos.find(p => selection.tileIds.has(p.id)) ?? placementsAtPos[0]
\* ?? null
HitTest(s, gridPos) ==
  LET placementsAtPos == PlacementsAtPos(s, gridPos)
      selectedAtPos ==
        SelectSeq(placementsAtPos, LAMBDA q : q.id \in s.selection.tileIds)
  IN IF Len(selectedAtPos) > 0 THEN Some(selectedAtPos[1])
     ELSE IF Len(placementsAtPos) > 0 THEN Some(placementsAtPos[1])
     ELSE Null

handleMouseDown(s, cv, button, toolMode, selectedTileId, cell, shiftKey, ctrlKey) ==
  IF button = 2
  THEN Handled(<< >>, DragState("pan", Null, Null, FALSE, FALSE),
               cv.moveOffset, cv.boxSelectEnd)
  ELSE IF button = 1
  THEN Handled(<< >>, DragState("joystick", Null, Null, FALSE, FALSE),
               cv.moveOffset, cv.boxSelectEnd)
  ELSE IF button # 0
  THEN Handled(<< >>, cv.dragState, cv.moveOffset, cv.boxSelectEnd)
  ELSE
    LET gridPos == screenToGrid(s, cell)
    IN IF toolMode = "place" /\ selectedTileId # Null
       THEN Handled(IF gridPos # Null
                    THEN <<Call("placeTile",
                                <<selectedTileId[1], gridPos[1][1], gridPos[1][2]>>)>>
                    ELSE << >>,
                    cv.dragState, cv.moveOffset, cv.boxSelectEnd)
       ELSE IF toolMode = "select"
       THEN
         LET placement == HitTest(s, gridPos)
             clickedOnSelected ==
               placement # Null /\ placement[1].id \in s.selection.tileIds
         IN IF placement # Null /\ ~shiftKey /\ ~ctrlKey
            THEN Handled(IF ~clickedOnSelected
                         THEN <<Call("selectTile", <<placement[1].id, FALSE>>)>>
                         ELSE << >>,
                         DragState("moveTiles", Some(gridPos[1][1]), Some(gridPos[1][2]),
                                   FALSE, FALSE),
                         NoOffset, cv.boxSelectEnd)
            ELSE
              LET startGrid == IF gridPos # Null THEN gridPos[1] ELSE <<0, 0>>
              IN Handled(IF ~shiftKey /\ ~ctrlKey /\ placement = Null
                         THEN <<Call("clearSelection", << >>)>>
                         ELSE << >>,
                         DragState("boxSelect", Some(startGrid[1]), Some(startGrid[2]),
                                   shiftKey, ctrlKey),
                         cv.moveOffset, Some(startGrid))
       ELSE Handled(<< >>, cv.dragState, cv.moveOffset, cv.boxSelectEnd)

handleMouseMove(s, cv, cell) ==
  IF cv.dragState.mode = "boxSelect"
  THEN LET gridPos == screenToGrid(s, cell)
       IN Handled(<< >>, cv.dragState, cv.moveOffset,
                  IF gridPos # Null THEN gridPos ELSE cv.boxSelectEnd)
  ELSE IF cv.dragState.mode = "moveTiles"
  THEN LET gridPos == screenToGridUnbounded(s, cell)
       IN Handled(<< >>, cv.dragState,
                  IF gridPos # Null /\ cv.dragState.startGridX # Null
                     /\ cv.dragState.startGridY # Null
                  THEN [dx |-> gridPos[1][1] - cv.dragState.startGridX[1],
                        dy |-> gridPos[1][2] - cv.dragState.startGridY[1]]
                  ELSE cv.moveOffset,
                  cv.boxSelectEnd)
  ELSE Handled(<< >>, cv.dragState, cv.moveOffset, cv.boxSelectEnd)

\* Variant of CompleteMoveTiles that moves whatever the offset.
CompleteMoveTiles_alwaysMoves(s, mo) ==
  <<Call("movePlacements", <<s.selection.tileIds, mo.dx, mo.dy>>)>>

\* The end of a moveTiles drag with a non-zero offset: delete the selection
\* when a selected placement would leave the grid, else move it.
CompleteMoveTiles(s, mo) ==
  IF WouldBeOffScene(s, s.selection.tileIds, mo.dx, mo.dy)
  THEN <<Call("deleteSelectedPlacements", << >>)>>
  ELSE <<Call("movePlacements", <<s.selection.tileIds, mo.dx, mo.dy>>)>>

MovingTiles(cv) ==
  cv.dragState.mode = "moveTiles" /\ (cv.moveOffset.dx # 0 \/ cv.moveOffset.dy # 0)

handleMouseUp(s, cv) ==
  LET boxSelecting == cv.dragState.mode = "boxSelect" /\ cv.boxSelectEnd # Null
      startX == IF cv.dragState.startGridX # Null THEN cv.dragState.startGridX[1] ELSE 0
      startY == IF cv.dragState.startGridY # Null THEN cv.dragState.startGridY[1] ELSE 0
      endX == cv.boxSelectEnd[1][1]
      endY == cv.boxSelectEnd[1][2]
  IN Handled(
       IF MovingTiles(cv) THEN CompleteMoveTiles(s, cv.moveOffset)
       ELSE IF boxSelecting
       THEN IF cv.dragState.ctrlKey
            THEN <<Call("deselectArea",
                        <<MinOf({startX, endX}), MinOf({startY, endY}),
                          MaxOf({startX, endX}), MaxOf({startY, endY})>>)>>
            ELSE <<Call("selectArea",
                        <<MinOf({startX, endX}), MinOf({startY, endY}),
                          MaxOf({startX, endX}), MaxOf({startY, endY}),
                          cv.dragState.shiftKey>>)>>
       ELSE << >>,
       IF cv.dragState.mode # "none" THEN NoDrag ELSE cv.dragState,
       IF MovingTiles(cv) THEN NoOffset ELSE cv.moveOffset,
       IF boxSelecting THEN Null ELSE cv.boxSelectEnd)

handleGlobalMouseUp(s, cv) ==
  Handled(IF MovingTiles(cv) THEN CompleteMoveTiles(s, cv.moveOffset) ELSE << >>,
          NoDrag,
          IF MovingTiles(cv) THEN NoOffset ELSE cv.moveOffset,
          cv.boxSelectEnd)

(***************************************************************************)
(* SpecCanvas: mouse gestures on the canvas over the loaded scene          *)
(***************************************************************************)
Buttons == {0, 1, 2}
ToolModes == {"select", "place"}
Modifiers == {<<FALSE, FALSE>>, <<TRUE, FALSE>>, <<FALSE, TRUE>>}
ClickCells == {<<2, 0>>, <<0, 1>>, <<4, 0>>}
PointerCells == {<<2, 0>>, <<3, 0>>, <<4, 0>>, <<3, 1>>}

\* The handler's calls reach the store, the component state is set, and the
\* calls are remembered.
Handle(h, name) ==
  LET s2 == InvokeAll(St, h.calls)
  IN /\ project' = s2.project
     /\ selection' = s2.selection
     /\ uncommittedMove' = s2.uncommittedMove
     /\ history' = s2.history
     /\ nextId' = s2.nextId
     /\ dragState' = h.dragState
     /\ moveOffset' = h.moveOffset
     /\ boxSelectEnd' = h.boxSelectEnd
     /\ lastOp' = [op |-> name, wasOpen |-> Open,
                   activeWas |-> IF project = Null THEN NoScene
                                 ELSE project[1].activeSceneId,
                   calls |-> h.calls]

HandleMouseDown ==
  \E button \in Buttons, toolMode \in ToolModes, cell \in ClickCells, m \in Modifiers :
     /\ Step
     /\ (button = 0 /\ toolMode = "place") => FreshRoom(1)
     /\ Handle(handleMouseDown(St, Canvas, button, toolMode, Some("t1"), cell,
                               m[1], m[2]),
               "handleMouseDown")

HandleMouseMove ==
  \E cell \in PointerCells :
     /\ dragState.mode \in {"boxSelect", "moveTiles"}
     /\ Step
     /\ Handle(handleMouseMove(St, Canvas, cell), "handleMouseMove")

HandleMouseUp ==
  /\ dragState.mode # "none"
  /\ Step
  /\ Handle(handleMouseUp(St, Canvas), "handleMouseUp")

\* The window listener is registered while a moveTiles or pan drag is on.
HandleGlobalMouseUp ==
  /\ dragState.mode \in {"moveTiles", "pan"}
  /\ Step
  /\ Handle(handleGlobalMouseUp(St, Canvas), "handleGlobalMouseUp")

NextCanvas ==
  \/ HandleMouseDown
  \/ HandleMouseMove
  \/ HandleMouseUp
  \/ HandleGlobalMouseUp

SpecCanvas == Init /\ [][NextCanvas]_vars

(***************************************************************************)
(* C26                                                                     *)
(***************************************************************************)
\* The cells the selected placements of the active scene would land on.
LandingCells(dx, dy) ==
  {<<q.gridX + dx, q.gridY + dy>> : q \in {SelectedPlacements[i] : i \in 1..Len(SelectedPlacements)}}

OnGrid(c) ==
  /\ HasScene
  /\ 0 <= c[1] /\ c[1] < getActiveScene(St)[1].gridWidth
  /\ 0 <= c[2] /\ c[2] < getActiveScene(St)[1].gridHeight

C27_HitTestStacked ==
  HasScene =>
    \A cell \in SceneCells :
       LET at == PlacementsAtPos(St, Some(cell))
           hit == HitTest(St, Some(cell))
       IN Len(at) >= 2 =>
            /\ hit # Null
            /\ IF \E i \in 1..Len(at) : at[i].id \in selection.tileIds
               THEN hit[1].id \in selection.tileIds
               ELSE /\ hit[1].id = MaxOf(IdsOf(at))
                    /\ hit[1] = at[Len(at)]

(***************************************************************************)
(* C28                                                                     *)
(***************************************************************************)
\* C28: placeTile(t, x, y) from Idle adds one placement with a fresh id,
\* unlocked, at (x, y), after the earlier placements, which stay as they
\* are; it opens a transaction with placementIds = {new id}, an empty
\* originalPositions and a replacedPlacements that holds the placements that
\* occupied (x, y), and only those; selection.tileIds becomes {new id} with
\* edgeIds and mode kept; past and future are unchanged.
C28_PlaceTileFromIdle ==
  (Idle /\ HasScene) =>
    \A t \in TileIds, c \in SceneCells :
       LET before == ScenePlacements(St)
           r == placeTile(St, t, c[1], c[2])
           after == ScenePlacements(r)
           new == Last(after)
           repl == r.uncommittedMove[1].replacedPlacements
       IN /\ Len(after) = Len(before) + 1
          /\ SubSeq(after, 1, Len(before)) = before
          /\ new.id \notin IdsOf(before)
          /\ new = [Placement(new.id, t, c[1], c[2]) EXCEPT !.locked = FALSE]
          /\ r.uncommittedMove # Null
          /\ r.uncommittedMove[1].placementIds = {new.id}
          /\ DOMAIN r.uncommittedMove[1].originalPositions = {}
          /\ \A i \in 1..Len(before) :
                Cell(before[i]) = c => Count(repl, before[i]) >= 1
          /\ \A i \in 1..Len(repl) :
                Cell(repl[i]) = c /\ Count(before, repl[i]) >= 1
          /\ r.selection = [selection EXCEPT !.tileIds = {new.id}]
          /\ r.history = history

(***************************************************************************)
(* C29                                                                     *)
(***************************************************************************)
\* The placements of the active scene outside the transaction that share a
\* cell with a live placement of the transaction.
Overlapped ==
  LET pls == ScenePlacements(St)
      live == {i \in 1..Len(pls) : pls[i].id \in uncommittedMove[1].placementIds}
  IN {pls[i] : i \in {j \in 1..Len(pls) :
                        /\ pls[j].id \notin uncommittedMove[1].placementIds
                        /\ \E k \in live : Cell(pls[k]) = Cell(pls[j])}}

\* C29: while a transaction is Open, replacedPlacements holds exactly the
\* placements of the active scene that are not in placementIds and share a
\* cell with a live placement at its current position; this is so after
\* placeTile, duplicateSelectedPlacements, movePlacements, undo on an Open
\* transaction and a redo that restores a transaction.
C29_ReplacedIsOverlapped ==
  (/\ Open
   /\ HasScene
   /\ \/ lastOp.op \in {"placeTile", "duplicateSelectedPlacements", "movePlacements", "redo"}
      \/ lastOp.op = "undo" /\ lastOp.wasOpen) =>
    LET repl == uncommittedMove[1].replacedPlacements
    IN {repl[i] : i \in 1..Len(repl)} = Overlapped

(***************************************************************************)
(* C30                                                                     *)
(***************************************************************************)
\* The original positions of the transaction, none when Idle.
OriginalPositions(s) ==
  IF s.uncommittedMove = Null THEN EmptyMap
  ELSE s.uncommittedMove[1].originalPositions

\* C30: a movePlacements call records, for each listed placement of the scene
\* that has no originalPositions entry yet, its cell at that moment; it leaves
\* every existing originalPositions entry as it is; it moves each listed
\* placement by (dx, dy) from its current cell and leaves the unlisted
\* placements where they are.
C30_FirstMoveCapture ==
  [][(lastOp'.op = "movePlacements" /\ HasScene) =>
       LET ids == lastOp'.args.placementIds
           dx == lastOp'.args.dx
           dy == lastOp'.args.dy
           before == ScenePlacements(St)
           old == OriginalPositions(St)
           after == ScenePlacements(St)'
           new == OriginalPositions(St)'
       IN /\ DOMAIN new = DOMAIN old \cup (ids \cap IdsOf(before))
          /\ \A id \in DOMAIN old : new[id] = old[id]
          /\ \A id \in (ids \cap IdsOf(before)) \ DOMAIN old :
                <<new[id].gridX, new[id].gridY>> \in CellsOf(before, id)
          /\ Len(after) = Len(before)
          /\ \A i \in 1..Len(before) :
                after[i] = IF before[i].id \in ids
                           THEN [before[i] EXCEPT !.gridX = before[i].gridX + dx,
                                                  !.gridY = before[i].gridY + dy]
                           ELSE before[i]]_vars

\* A second movePlacements call of one transaction has moved a placement on:
\* it is two cells from the cell originalPositions still records for it.
C30_Witness ==
  /\ lastOp.op = "movePlacements"
  /\ lastOp.wasOpen
  /\ Open
  /\ HasScene
  /\ \E i \in 1..Len(ScenePlacements(St)) :
        LET q == ScenePlacements(St)[i]
            orig == uncommittedMove[1].originalPositions
        IN /\ q.id \in DOMAIN orig
           /\ q.id \in uncommittedMove[1].placementIds
           /\ (q.gridX - orig[q.id].gridX) * (q.gridX - orig[q.id].gridX)
                + (q.gridY - orig[q.id].gridY) * (q.gridY - orig[q.id].gridY) \in {2, 4}

(***************************************************************************)
(* C31                                                                     *)
(***************************************************************************)
\* The placements of every scene of the project, scene by scene.
AllPlacements(s) ==
  IF s.project = Null THEN << >>
  ELSE [i \in 1..Len(s.project[1].scenes) |-> s.project[1].scenes[i].placements]

\* C31: cancelMove() on an Open transaction leaves past, future,
\* selection.edgeIds and every placement outside placementIds as they are (a
\* replaced placement is in the scene as many times as before, at its cell),
\* makes the transaction Idle and empties selection.tileIds; with no Open
\* transaction it changes nothing.
C31_CancelFrame ==
  LET c == cancelMove(St)
  IN /\ Idle => c = St
     /\ (Open /\ project # Null) =>
          /\ c.history = history
          /\ c.selection.edgeIds = selection.edgeIds
          /\ c.uncommittedMove = Null
          /\ c.selection.tileIds = {}
          /\ Len(AllPlacements(c)) = Len(AllPlacements(St))
          /\ \A i \in 1..Len(AllPlacements(St)) :
                LET before == AllPlacements(St)[i]
                    after == AllPlacements(c)[i]
                IN /\ \A k \in 1..Len(before) :
                         before[k].id \notin uncommittedMove[1].placementIds =>
                           Count(after, before[k]) = Count(before, before[k])
                   /\ \A k \in 1..Len(after) :
                         after[k].id \notin uncommittedMove[1].placementIds =>
                           Count(before, after[k]) = Count(after, after[k])

(***************************************************************************)
(* C32                                                                     *)
(***************************************************************************)
\* C32: duplicateSelectedPlacements from Idle, with selected placements in
\* the scene, leaves the earlier placements as they are and appends one clone
\* per selected placement: fresh id, unlocked, the same tileId, the original's
\* cell plus the chosen offset; the transaction opens with placementIds the
\* clone ids and empty originalPositions, and selection.tileIds is the clone
\* ids.
C32_DuplicateFromIdle ==
  (Idle /\ HasScene /\ Len(SelectedPlacements) > 0) =>
    LET scene == getActiveScene(St)[1]
        before == scene.placements
        sel == SelectedPlacements
        off == DuplicateOffset(sel, scene.gridWidth, scene.gridHeight)
        r == duplicateSelectedPlacements(St)
        after == ScenePlacements(r)
        clones == SubSeq(after, Len(before) + 1, Len(after))
    IN /\ Len(after) = Len(before) + Len(sel)
       /\ SubSeq(after, 1, Len(before)) = before
       /\ Cardinality(IdsOf(clones)) = Len(sel)
       /\ IdsOf(clones) \cap IdsOf(before) = {}
       /\ \A i \in 1..Len(sel) :
             /\ ~clones[i].locked
             /\ clones[i].tileId = sel[i].tileId
             /\ Cell(clones[i]) = <<sel[i].gridX + off.offsetX, sel[i].gridY + off.offsetY>>
       /\ r.uncommittedMove # Null
       /\ r.uncommittedMove[1].placementIds = IdsOf(clones)
       /\ DOMAIN r.uncommittedMove[1].originalPositions = {}
       /\ r.selection.tileIds = IdsOf(clones)

\* A duplication from Idle has just run: the selection and the transaction
\* are the clone, which has the tile of an earlier placement.
C32_Witness ==
  /\ lastOp.op = "duplicateSelectedPlacements"
  /\ ~lastOp.wasOpen
  /\ Open
  /\ HasScene
  /\ selection.tileIds = uncommittedMove[1].placementIds
  /\ DOMAIN uncommittedMove[1].originalPositions = {}
  /\ Len(ScenePlacements(St)) >= 2
  /\ Last(ScenePlacements(St)).id \in selection.tileIds
  /\ \E i \in 1..(Len(ScenePlacements(St)) - 1) :
        /\ ScenePlacements(St)[i].id \notin selection.tileIds
        /\ ScenePlacements(St)[i].tileId = Last(ScenePlacements(St)).tileId

(***************************************************************************)
(* removeTile, and SpecTiles: editing with tiles removed from the library  *)
(***************************************************************************)
removeTile(s, tileId) ==
  IF s.project = Null THEN s
  ELSE
    LET p == s.project[1]
    IN [s EXCEPT
          !.project = Some([p EXCEPT
             !.tiles = p.tiles \ {tileId},
             !.scenes =
                [i \in 1..Len(p.scenes) |->
                   [p.scenes[i] EXCEPT !.placements =
                      SelectSeq(p.scenes[i].placements,
                                LAMBDA q : q.tileId # tileId)]]])]

RemoveTile ==
  /\ project # Null
  /\ Step
  /\ \E t \in project[1].tiles : Apply(removeTile(St, t), "removeTile")

\* placeTile with a tile of the library.
PlaceLibraryTile ==
  /\ project # Null
  /\ FreshRoom(1)
  /\ Step
  /\ \E t \in project[1].tiles, c \in PlaceCells :
        Apply(placeTile(St, t, c[1], c[2]), "placeTile")

NextTiles ==
  \/ RemoveTile
  \/ PlaceLibraryTile
  \/ CommitMove
  \/ Undo
  \/ Redo
  \/ SelectTile

SpecTiles == Init /\ [][NextTiles]_vars

(***************************************************************************)
(* C33                                                                     *)
(***************************************************************************)
\* C33: with placeTile called only with tiles of the library, every placement
\* of every scene references a tile of the library in every reachable state;
\* so after removeTile(t) no scene holds a placement of t, after later undo()
\* and redo() calls too.
C33_TileReferencesValid ==
  project # Null =>
    \A i \in 1..Len(AllPlacements(St)) :
       \A k \in 1..Len(AllPlacements(St)[i]) :
          AllPlacements(St)[i][k].tileId \in project[1].tiles

(***************************************************************************)
(* C34                                                                     *)
(***************************************************************************)
UniqueIds(pls) == Cardinality(IdsOf(pls)) = Len(pls)

\* C34: no scene's placement list and no snapshot of past or future holds two
\* placements with the same id.
C34_PlacementIdsUnique ==
  /\ \A i \in 1..Len(AllPlacements(St)) : UniqueIds(AllPlacements(St)[i])
  /\ \A i \in 1..Len(history.past) : UniqueIds(history.past[i].placements)
  /\ \A i \in 1..Len(history.future) : UniqueIds(history.future[i].placements)

(***************************************************************************)
(* C35                                                                     *)
(***************************************************************************)
\* The states undo(), cancelMove() and commitMove() lead to from o in at most
\* n calls, the calls made while the transaction is Open.
RECURSIVE TransactionStates(_, _)
TransactionStates(o, n) ==
  {o} \cup
  (IF n = 0 \/ o.uncommittedMove = Null THEN {}
   ELSE TransactionStates(undo(o), n - 1)
          \cup TransactionStates(cancelMove(o), n - 1)
          \cup TransactionStates(commitMove(o), n - 1))

MaxTransactionCalls == 3

\* C35: a placement that was in the scene when movePlacements opened a
\* transaction on it from Idle stays in the scene under every sequence of
\* undo(), cancelMove() and commitMove() on that transaction, and is in the
\* entry a commit pushes; after movePlacements, undo(), undo() it is in the
\* scene at its original cell.
C35_MovedPlacementSurvives ==
  [][(Idle /\ HasScene /\ lastOp'.op = "movePlacements" /\ Open') =>
       LET before == ScenePlacements(St)
           moved == lastOp'.args.placementIds \cap IdsOf(before)
       IN /\ \A r \in TransactionStates(St', MaxTransactionCalls) :
               /\ moved \subseteq IdsOf(ScenePlacements(r))
               /\ r.uncommittedMove # Null =>
                    moved \subseteq IdsOf(Last(commitMove(r).history.past).placements)
          /\ \A id \in moved :
               CellsOf(ScenePlacements(undo(undo(St'))), id) = CellsOf(before, id)]_vars

(***************************************************************************)
(* C36                                                                     *)
(***************************************************************************)
\* C36: whenever canUndo() is true undo() changes the store, whenever
\* canRedo() is true redo() changes it, and every entry of past and future
\* targets a scene the project still has.
C36_UndoMakesProgress ==
  /\ canUndo(St) => ~SameStore(undo(St), St)
  /\ canRedo(St) => ~SameStore(redo(St), St)
  /\ \A i \in 1..Len(history.past) : history.past[i].sceneId \in SceneIdsOf(St)
  /\ \A i \in 1..Len(history.future) : history.future[i].sceneId \in SceneIdsOf(St)

(***************************************************************************)
(* C37                                                                     *)
(***************************************************************************)
\* The placements a list holds, whatever their order and number of copies.
PlacementSet(pls) == {pls[i] : i \in 1..Len(pls)}

\* C37: when an operation takes the store from Open to Idle, the active
\* scene as it was before the transaction opened is afterwards the current
\* scene or one of the snapshots of past.  The transactions looked at are
\* those the previous operation opened from Idle, for which cancelMove()
\* gives the scene from before the transaction.
C37_NoTransactionLost ==
  [][(Open /\ HasScene /\ lastOp.op \in OpensTransaction /\ ~lastOp.wasOpen
        /\ Idle') =>
       LET before == PlacementSet(BeforeTransaction)
       IN \/ PlacementSet(ScenePlacements(St')) = before
          \/ \E i \in 1..Len(history'.past) :
               PlacementSet(history'.past[i].placements) = before]_vars

(***************************************************************************)
(* C38                                                                     *)
(***************************************************************************)
\* Every live placement of the Open transaction of s is in its active scene.
TransactionInActiveScene(s) ==
  s.uncommittedMove # Null =>
    s.uncommittedMove[1].placementIds \subseteq IdsOf(ScenePlacements(s))

\* C38: an operation that changes the active scene while a transaction on
\* placements of the active scene is Open leaves no transaction Open whose
\* live placements are not placements of the new active scene.
C38_TransactionFollowsScene ==
  [][(Open /\ HasScene /\ TransactionInActiveScene(St)
        /\ project' # Null /\ project'[1].activeSceneId # project[1].activeSceneId) =>
       TransactionInActiveScene(St')]_vars

(***************************************************************************)
(* SpecInteract: the operations of the interaction layer that create or    *)
(* move placements: the canvas mouse handlers, and Duplicate, Undo and     *)
(* Redo of the Edit menu                                                   *)
(***************************************************************************)
NextInteract ==
  \/ HandleMouseDown
  \/ HandleMouseMove
  \/ HandleMouseUp
  \/ HandleGlobalMouseUp
  \/ DuplicateSelectedPlacements
  \/ Undo
  \/ Redo

SpecInteract == Init /\ [][NextInteract]_vars

(***************************************************************************)
(* C39                                                                     *)
(***************************************************************************)
\* C39: every placement of every scene is on the grid of its scene.
C39_PlacementsOnGrid ==
  project # Null =>
    \A i \in 1..Len(project[1].scenes) :
       LET sc == project[1].scenes[i]
       IN \A k \in 1..Len(sc.placements) :
            /\ 0 <= sc.placements[k].gridX /\ sc.placements[k].gridX < sc.gridWidth
            /\ 0 <= sc.placements[k].gridY /\ sc.placements[k].gridY < sc.gridHeight

(***************************************************************************)
(* lockSelection, unlockSelection                                          *)
(***************************************************************************)
lockSelection(s) ==
  IF s.project = Null THEN s
  ELSE IF s.project[1].activeSceneId = NoScene THEN s
  ELSE
    LET p == s.project[1]
    IN [s EXCEPT !.project = Some([p EXCEPT !.scenes =
          [i \in 1..Len(p.scenes) |->
             IF p.scenes[i].id = p.activeSceneId
             THEN [p.scenes[i] EXCEPT
                     !.placements =
                        [j \in 1..Len(p.scenes[i].placements) |->
                           IF p.scenes[i].placements[j].id \in s.selection.tileIds
                           THEN [p.scenes[i].placements[j] EXCEPT !.locked = TRUE]
                           ELSE p.scenes[i].placements[j]],
                     !.edges =
                        [j \in 1..Len(p.scenes[i].edges) |->
                           IF p.scenes[i].edges[j].id \in s.selection.edgeIds
                           THEN [p.scenes[i].edges[j] EXCEPT !.locked = TRUE]
                           ELSE p.scenes[i].edges[j]]]
             ELSE p.scenes[i]]])]

unlockSelection(s) ==
  IF s.project = Null THEN s
  ELSE IF s.project[1].activeSceneId = NoScene THEN s
  ELSE
    LET p == s.project[1]
    IN [s EXCEPT !.project = Some([p EXCEPT !.scenes =
          [i \in 1..Len(p.scenes) |->
             IF p.scenes[i].id = p.activeSceneId
             THEN [p.scenes[i] EXCEPT
                     !.placements =
                        [j \in 1..Len(p.scenes[i].placements) |->
                           IF p.scenes[i].placements[j].id \in s.selection.tileIds
                           THEN [p.scenes[i].placements[j] EXCEPT !.locked = FALSE]
                           ELSE p.scenes[i].placements[j]],
                     !.edges =
                        [j \in 1..Len(p.scenes[i].edges) |->
                           IF p.scenes[i].edges[j].id \in s.selection.edgeIds
                           THEN [p.scenes[i].edges[j] EXCEPT !.locked = FALSE]
                           ELSE p.scenes[i].edges[j]]]
             ELSE p.scenes[i]]])]

(***************************************************************************)
(* SpecLocks: the lock operations on the scene with edges, next to the     *)
(* operations that select, edit and travel the history                     *)
(***************************************************************************)
\* The call's arguments are remembered with it.
SetPlacementLocked ==
  /\ Step
  /\ \E id \in IdsOf(ScenePlacements(St)), locked \in BOOLEAN :
        ApplyArgs(setPlacementLocked(St, id, locked), "setPlacementLocked",
                  [placementId |-> id, locked |-> locked])

LockSelection ==
  /\ Step
  /\ selection.tileIds # {} \/ selection.edgeIds # {}
  /\ Apply(lockSelection(St), "lockSelection")

UnlockSelection ==
  /\ Step
  /\ selection.tileIds # {} \/ selection.edgeIds # {}
  /\ Apply(unlockSelection(St), "unlockSelection")

NextLocks ==
  \/ SetPlacementLocked
  \/ LockSelection
  \/ UnlockSelection
  \/ SetSelectionMode
  \/ SelectArea
  \/ PlaceTile
  \/ CommitMove
  \/ Undo
  \/ Redo

SpecLocks == InitSelect /\ [][NextLocks]_vars

(***************************************************************************)
(* C40                                                                     *)
(***************************************************************************)
\* The placement or edge with its locked flag left out.
Unlocked(q) == [q EXCEPT !.locked = FALSE]

\* The two stores differ at most in locked flags of placements and edges of
\* the active scene whose ids are among pids and eids, set to locked there.
OnlyLocks(a, b, pids, eids, locked) ==
  /\ a.selection = b.selection
  /\ a.uncommittedMove = b.uncommittedMove
  /\ a.history = b.history
  /\ LET p == a.project[1]
         q == b.project[1]
     IN /\ q.activeSceneId = p.activeSceneId
        /\ q.tiles = p.tiles
        /\ Len(q.scenes) = Len(p.scenes)
        /\ \A i \in 1..Len(p.scenes) :
             IF p.scenes[i].id # p.activeSceneId THEN q.scenes[i] = p.scenes[i]
             ELSE /\ [q.scenes[i] EXCEPT !.placements = << >>, !.edges = << >>]
                       = [p.scenes[i] EXCEPT !.placements = << >>, !.edges = << >>]
                  /\ Len(q.scenes[i].placements) = Len(p.scenes[i].placements)
                  /\ Len(q.scenes[i].edges) = Len(p.scenes[i].edges)
                  /\ \A j \in 1..Len(p.scenes[i].placements) :
                       q.scenes[i].placements[j] =
                         IF p.scenes[i].placements[j].id \in pids
                         THEN [p.scenes[i].placements[j] EXCEPT !.locked = locked]
                         ELSE p.scenes[i].placements[j]
                  /\ \A j \in 1..Len(p.scenes[i].edges) :
                       q.scenes[i].edges[j] =
                         IF p.scenes[i].edges[j].id \in eids
                         THEN [p.scenes[i].edges[j] EXCEPT !.locked = locked]
                         ELSE p.scenes[i].edges[j]

\* The lock operations change the locked flag of their targets and nothing
\* else.
LocksFramePreserving ==
  [][HasScene =>
       /\ lastOp'.op = "setPlacementLocked" =>
            OnlyLocks(St, St', {lastOp'.args.placementId}, {}, lastOp'.args.locked)
       /\ lastOp'.op = "lockSelection" =>
            OnlyLocks(St, St', selection.tileIds, selection.edgeIds, TRUE)
       /\ lastOp'.op = "unlockSelection" =>
            OnlyLocks(St, St', selection.tileIds, selection.edgeIds, FALSE)]_vars

\* undo() and redo() leave the locked flag of every placement that is in the
\* active scene once, at the same cell, before and after the call.
LocksSurviveHistory ==
  [][(HasScene /\ lastOp'.op \in {"undo", "redo"}) =>
       LET before == ScenePlacements(St)
           after == ScenePlacements(St')
       IN \A j \in 1..Len(before), k \in 1..Len(after) :
            (/\ Unlocked(before[j]) = Unlocked(after[k])
             /\ Cardinality({i \in 1..Len(before) : before[i].id = before[j].id}) = 1
             /\ Cardinality({i \in 1..Len(after) : after[i].id = after[k].id}) = 1)
              => before[j].locked = after[k].locked]_vars

\* C40: setPlacementLocked, lockSelection and unlockSelection change only the
\* locked flag of the targeted placements and edges of the active scene, and
\* a later undo() or redo() does not change the locked flag of a placement
\* the undone edit did not touch.
C40_LocksSurviveHistory == LocksFramePreserving /\ LocksSurviveHistory

====
